---- MODULE Spec2Model ----
(***************************************************************************)
(* The post/response store of the-echo-app/server (src/server/db/posts.ts) *)
(* and the GraphQL resolvers in front of it.                               *)
(*                                                                         *)
(* posts, notifications and bookmarks are the committed rows of the        *)
(* PostgreSQL tables.  A call is a process: it runs its statements one at  *)
(* a time; the statements of a withTransaction body see the committed rows *)
(* (READ COMMITTED, the default isolation level), buffer their own writes  *)
(* and hold a row lock on every row they have updated until they commit    *)
(* or roll back.                                                           *)
(***************************************************************************)
EXTENDS Integers, Sequences, FiniteSets, TLC

\* ------------------------------------------------------------------ bounds
MaxPosts == 3
NumProcs == 2
MaxTime == 1
\* the posts of the specification that runs every operation
MaxPostsAll == 2
\* the restoreAuth calls of the client that are in progress at once
MaxRuns == 2
\* the pages a client fetches in one traversal before it gives up
MaxFetches == 4
\* the posts of the specification of the store that the reads are tried on
MaxPostsRead == 3
\* the posts of the specification of the bookmark calls
MaxPostsBm == 2

\* ------------------------------------------------------------------ inputs
Null == "null"
\* an optional value: absent, or present
None == << >>
Some(x) == <<x>>
Users == {1, 2}
\* the users that own a row of user_profiles, with that row's city
ProfileCity == [u \in {1} |-> "tokyo"]
Procs == 1..NumProcs
PostIds == 1..MaxPosts
\* the optional (city, tags) arguments of createPost
PostInputs == {[city |-> Null, tags |-> None], [city |-> "tokyo", tags |-> Some({"a", "b"})]}
BasePostInput == [city |-> Null, tags |-> None]
\* the optional tags argument of createResponse
ResponseTags == {None, Some({"b"})}
Statuses == {"AWAITING_PROCESSING", "PROCESSED", "DELETED"}
AudioKey == "key"

VARIABLES posts, nextId, notifications, bookmarks, now, call

\* the client: the state of the AuthProvider's reducer, the auth_token item of
\* localStorage, the token of the GraphQL client, the restorationStarted ref and
\* the restoreAuth calls
VARIABLES authState, localStorage, clientToken, restorationStarted, restore

serverVars == <<posts, nextId, notifications, bookmarks, now, call>>
clientVars == <<authState, localStorage, clientToken, restorationStarted, restore>>
vars == <<posts, nextId, notifications, bookmarks, now, call,
          authState, localStorage, clientToken, restorationStarted, restore>>

\* ------------------------------------------------------------------ schema
\* a row of the posts table: the inserted values and the column defaults
NewPostRow(id, data, createdAt) ==
  [id |-> id, userId |-> data.userId, type |-> data.type, parentId |-> data.parentId,
   audioUrl |-> data.audioUrl, audioKey |-> data.audioKey, duration |-> data.duration,
   tags |-> data.tags, waveformUrl |-> Null, responseCount |-> 0, bookmarkCount |-> 0,
   city |-> data.city, active |-> TRUE, status |-> "AWAITING_PROCESSING",
   createdAt |-> createdAt, updatedAt |-> createdAt]

\* JavaScript's a || b for an optional a
OrElse(a, b) == IF a = None THEN b ELSE a[1]
OrElseStr(a, b) == IF a = Null THEN b ELSE a

getPublicUrl(audioKey) == <<"url", audioKey>>

Max(a, b) == IF a >= b THEN a ELSE b

\* ------------------------------------------------------------------ calls
\* A call in flight: its arguments, its position, the row it selected, and
\* the writes of its transaction that are not committed yet.
IdleCall ==
  [op |-> "idle", pc |-> "idle", userId |-> 0, arg |-> 0, tags |-> None, start |-> 0,
   read |-> None, new |-> None, softDel |-> FALSE, softAt |-> 0,
   cntRow |-> 0, cnt |-> 0, cntAt |-> 0, cntCol |-> "responseCount",
   bmAdd |-> {}, bmDel |-> {},
   note |-> None, sres |-> Null, res |-> Null,
   sortBy |-> Null, limit |-> 0, engine |-> "strict", cursor |-> << >>,
   fetches |-> 0, seen |-> << >>, stay |-> {}]

NoneRunning == \A q \in Procs : call[q].pc = "idle"

\* the rows a transaction has updated stay locked until it ends
Locks(c) == (IF c.softDel THEN {c.arg} ELSE {}) \cup (IF c.cntRow # 0 THEN {c.cntRow} ELSE {})
LockedByOther(p, id) == \E q \in Procs \ {p} : id \in Locks(call[q])
\* an insert waits for the transaction that has inserted or deleted a row with
\* the same key; a delete waits for the one that has deleted the row, and does
\* not see a row whose insert is not committed
KeyLockedByOther(p, key, pc) ==
  \E q \in Procs \ {p} :
     key \in (IF pc = "ab_insert" THEN call[q].bmAdd ELSE {}) \cup call[q].bmDel
Locked(id) == \E q \in Procs : id \in Locks(call[q])

\* The database as one call sees it: the committed tables, and the call.
Db(p) == [posts |-> posts, nextId |-> nextId, notifications |-> notifications,
          bookmarks |-> bookmarks, now |-> now, c |-> call[p]]

\* variant: the delete flips active
SoftDeletedFlipped(row, at) == [row EXCEPT !.active = ~row.active, !.updatedAt = at]

\* set active = false, updated_at = now
SoftDeleted(row, at) == [row EXCEPT !.active = FALSE, !.updatedAt = at]

\* withTransaction, the body returned: the writes of the transaction are committed
Commit(db) ==
  LET c  == db.c
      p1 == IF c.softDel
            THEN [db.posts EXCEPT ![c.arg] = SoftDeleted(db.posts[c.arg], c.softAt)]
            ELSE db.posts
      p2 == IF c.cntRow # 0 /\ c.cntCol = "responseCount"
            THEN [p1 EXCEPT ![c.cntRow].responseCount = c.cnt, ![c.cntRow].updatedAt = c.cntAt]
            ELSE IF c.cntRow # 0
            THEN [p1 EXCEPT ![c.cntRow].bookmarkCount = c.cnt]
            ELSE p1
      p3 == IF c.new # None THEN p2 @@ (c.new[1].id :> c.new[1]) ELSE p2
  IN  [db EXCEPT !.posts = p3,
                 !.notifications = @ \o c.note,
                 !.bookmarks = (@ \cup c.bmAdd) \ c.bmDel,
                 !.c = [c EXCEPT !.softDel = FALSE, !.softAt = 0, !.cntRow = 0, !.cnt = 0,
                                 !.cntAt = 0, !.cntCol = "responseCount",
                                 !.bmAdd = {}, !.bmDel = {}, !.note = None]]

\* withTransaction, the body threw: none of the writes of the transaction is kept
Rollback(db, sres, res) ==
  [db EXCEPT !.c = [@ EXCEPT !.pc = "done", !.read = None, !.new = None, !.softDel = FALSE,
                             !.softAt = 0, !.cntRow = 0, !.cnt = 0, !.cntAt = 0,
                             !.cntCol = "responseCount", !.bmAdd = {}, !.bmDel = {},
                             !.note = None,
                             !.sres = sres, !.res = res]]

\* ------------------------------------------------------------------ reads
\* select ... from posts where id = :id and active = true limit 1
SelectActive(db, id) ==
  IF id \in DOMAIN db.posts /\ db.posts[id].active THEN Some(db.posts[id]) ELSE None

\* getPostById: the active row joined with its author's profile, or nothing
getPostById(db, id, viewerUserId) ==
  IF /\ id \in DOMAIN db.posts
     /\ db.posts[id].active
     /\ db.posts[id].userId \in DOMAIN ProfileCity
  THEN Some([post |-> db.posts[id],
             author |-> [userId |-> db.posts[id].userId,
                         city |-> ProfileCity[db.posts[id].userId]],
             isBookmarked |-> (viewerUserId # 0 /\ <<viewerUserId, id>> \in db.bookmarks)])
  ELSE None

\* ---- projections (post is a row with its author and isBookmarked)
\* variant: the summary without the redaction
mapPostToSummaryUnredacted(pwa) ==
  [id |-> pwa.post.id, userId |-> pwa.post.userId,
   author |-> [userId |-> pwa.author.userId, city |-> pwa.author.city,
               createdAt |-> pwa.post.createdAt],
   type |-> pwa.post.type, status |-> pwa.post.status, parentId |-> pwa.post.parentId,
   duration |-> pwa.post.duration, tags |-> pwa.post.tags,
   waveformUrl |-> pwa.post.waveformUrl,
   responseCount |-> pwa.post.responseCount, bookmarkCount |-> pwa.post.bookmarkCount,
   isBookmarked |-> pwa.isBookmarked, createdAt |-> pwa.post.createdAt]

\* mapPostToSummary: the fields of the summary; no waveformUrl for a DELETED post
mapPostToSummary(pwa) ==
  LET isDeleted == pwa.post.status = "DELETED"
  IN  [id |-> pwa.post.id, userId |-> pwa.post.userId,
       author |-> [userId |-> pwa.author.userId, city |-> pwa.author.city,
                   createdAt |-> pwa.post.createdAt],
       type |-> pwa.post.type, status |-> pwa.post.status, parentId |-> pwa.post.parentId,
       duration |-> pwa.post.duration, tags |-> pwa.post.tags,
       waveformUrl |-> IF isDeleted THEN Null ELSE pwa.post.waveformUrl,
       responseCount |-> pwa.post.responseCount, bookmarkCount |-> pwa.post.bookmarkCount,
       isBookmarked |-> pwa.isBookmarked, createdAt |-> pwa.post.createdAt]

\* mapPostToFull: the summary, audioUrl (none for a DELETED post) and city
mapPostToFull(pwa) ==
  LET isDeleted == pwa.post.status = "DELETED"
      summary == mapPostToSummary(pwa)
  IN  [f \in DOMAIN summary \cup {"audioUrl", "city"} |->
         IF f = "audioUrl" THEN (IF isDeleted THEN None ELSE Some(pwa.post.audioUrl))
         ELSE IF f = "city" THEN pwa.post.city
         ELSE summary[f]]

\* ---- cursors: strings as sequences of characters
DigitChars == <<"0", "1", "2", "3", "4", "5", "6", "7", "8", "9">>
DigitValueOf == [ch \in {DigitChars[d] : d \in 1..10} |->
                   (CHOOSE d \in 1..10 : DigitChars[d] = ch) - 1]
IsDigit(ch) == ch \in DOMAIN DigitValueOf
DigitValue(ch) == DigitValueOf[ch]

\* `${n}` for a non-negative integer
RECURSIVE numberToString(_)
numberToString(n) == IF n < 10 THEN <<DigitChars[n + 1]>>
                     ELSE numberToString(n \div 10) \o <<DigitChars[(n % 10) + 1]>>

\* the position of the first ":" of a string from position i on, 0 if there is none
RECURSIVE ColonFrom(_, _)
ColonFrom(str, i) ==
  IF i > Len(str) THEN 0 ELSE IF str[i] = ":" THEN i ELSE ColonFrom(str, i + 1)

\* const [cursorValue, cursorId] = cursor.split(":"): the first two pieces,
\* a missing piece being undefined (here: empty, which is falsy as well)
SplitFirst(str) ==
  LET k == ColonFrom(str, 1) IN IF k = 0 THEN str ELSE SubSeq(str, 1, k - 1)
SplitSecond(str) ==
  LET k == ColonFrom(str, 1)
      n == IF k = 0 THEN 0 ELSE ColonFrom(str, k + 1)
  IN  IF k = 0 THEN << >>
      ELSE IF n = 0 THEN SubSeq(str, k + 1, Len(str))
      ELSE SubSeq(str, k + 1, n - 1)

\* parseInt(str, 10): the digits the string starts with; NaN (None) without any
RECURSIVE DigitsValue(_, _)
DigitsValue(str, acc) ==
  IF str = << >> \/ ~IsDigit(Head(str)) THEN acc
  ELSE DigitsValue(Tail(str), 10 * acc + DigitValue(Head(str)))

parseInt(str) ==
  IF str = << >> \/ ~IsDigit(Head(str)) THEN None ELSE Some(DigitsValue(str, 0))

\* Date.toISOString: the hour of the timestamp, ":", the minutes
toISOString(t) == <<"T">> \o numberToString(t) \o <<":", "0", "0">>

\* new Date(str): the timestamp of a full ISO string. A string cut after the
\* hour is an invalid date for a strict parser and that hour for a lenient one.
newDate(str, engine) ==
  IF Len(str) >= 2 /\ str[1] = "T" /\ \A i \in 2..Len(str) : IsDigit(str[i])
  THEN IF engine = "lenient" THEN Some(DigitsValue(Tail(str), 0)) ELSE None
  ELSE IF /\ Len(str) >= 5
          /\ str[1] = "T"
          /\ SubSeq(str, Len(str) - 2, Len(str)) = <<":", "0", "0">>
          /\ \A i \in 2..(Len(str) - 3) : IsDigit(str[i])
  THEN Some(DigitsValue(Tail(str), 0))
  ELSE None

\* ---- getPosts
SortOrders == {"NEWEST", "OLDEST", "MOST_SAVED", "LEAST_SAVED",
               "MOST_RESPONSES", "LEAST_RESPONSES"}
DefaultLimit == 20

\* the options of a call with none given
NoOptions ==
  [city |-> Null, tags |-> {}, type |-> Null, userId |-> 0, parentId |-> 0,
   sortBy |-> Null, cursor |-> << >>, limit |-> -1, viewerUserId |-> 0,
   engine |-> "strict"]

TypeOf(o) == OrElseStr(o.type, "POST")
SortByOf(o) == OrElseStr(o.sortBy, "NEWEST")
LimitOf(o) == IF o.limit = -1 THEN DefaultLimit ELSE o.limit

\* the column a sort order compares, and whether it is descending
SortKey(sortBy, row) ==
  CASE sortBy \in {"NEWEST", "OLDEST"} -> row.createdAt
    [] sortBy \in {"MOST_SAVED", "LEAST_SAVED"} -> row.bookmarkCount
    [] sortBy \in {"MOST_RESPONSES", "LEAST_RESPONSES"} -> row.responseCount
Descending(sortBy) == sortBy \in {"NEWEST", "MOST_SAVED", "MOST_RESPONSES"}

\* (key, id) < (k, i), or > for the ascending orders
RowAfter(sortBy, key, id, k, i) ==
  IF Descending(sortBy) THEN key < k \/ (key = k /\ id < i)
  ELSE key > k \/ (key = k /\ id > i)

\* whether the call decodes a cursor at all
HasCursor(o) == o.cursor # << >> /\ SplitFirst(o.cursor) # << >> /\ SplitSecond(o.cursor) # << >>

\* the key and the id of the cursor, as the store receives them (None: NaN or
\* an invalid date)
CursorKey(o) ==
  IF SortByOf(o) \in {"NEWEST", "OLDEST"} THEN newDate(SplitFirst(o.cursor), o.engine)
  ELSE parseInt(SplitFirst(o.cursor))
CursorId(o) == parseInt(SplitSecond(o.cursor))

\* the decoded cursor of the call
DecodedCursor(o) ==
  IF o.cursor = << >> THEN [has |-> FALSE, key |-> None, id |-> None]
  ELSE IF HasCursor(o) THEN [has |-> TRUE, key |-> CursorKey(o), id |-> CursorId(o)]
  ELSE [has |-> FALSE, key |-> None, id |-> None]

\* the store rejects a comparison with NaN or with an invalid date
CursorRejected(cur) == cur.has /\ (cur.key = None \/ cur.id = None)

\* sql`${posts.tags} ?| ${tags}`: the query builder renders the list of tags
\* as (p1, ..., pn), which is a row value for two tags and one text for one
\* tag, and never the text[] that ?| takes; the store rejects the query
TagsRejected(o) == o.tags # {}

\* variant: the page is not cut at the limit
TakeAll(seq, n) == seq

\* variant: the conditions of the query without active = true
MatchesInactive(o, cur, row) ==
  /\ row.type = TypeOf(o)
  /\ o.city # Null => row.city = o.city
  /\ o.userId # 0 => row.userId = o.userId
  /\ o.parentId # 0 => row.parentId = o.parentId
  /\ o.tags # {} => row.tags \cap o.tags # {}
  /\ cur.has => RowAfter(SortByOf(o), SortKey(SortByOf(o), row), row.id, cur.key[1], cur.id[1])

\* variant: a call without a type has no condition on the type
MatchesAnyType(o, cur, row) ==
  /\ row.active
  /\ o.type # Null => row.type = o.type
  /\ o.city # Null => row.city = o.city
  /\ o.userId # 0 => row.userId = o.userId
  /\ o.parentId # 0 => row.parentId = o.parentId
  /\ o.tags # {} => row.tags \cap o.tags # {}
  /\ cur.has => RowAfter(SortByOf(o), SortKey(SortByOf(o), row), row.id, cur.key[1], cur.id[1])

\* the conditions of the query
Matches(o, cur, row) ==
  /\ row.active
  /\ row.type = TypeOf(o)
  /\ o.city # Null => row.city = o.city
  /\ o.userId # 0 => row.userId = o.userId
  /\ o.parentId # 0 => row.parentId = o.parentId
  /\ o.tags # {} => row.tags \cap o.tags # {}
  /\ cur.has => RowAfter(SortByOf(o), SortKey(SortByOf(o), row), row.id, cur.key[1], cur.id[1])

\* order by key, id (both descending, or both ascending)
RECURSIVE Ordered(_, _, _)
Ordered(rows, ids, sortBy) ==
  IF ids = {} THEN << >>
  ELSE LET first == CHOOSE x \in ids : \A y \in ids \ {x} :
                      RowAfter(sortBy, SortKey(sortBy, rows[y]), y,
                               SortKey(sortBy, rows[x]), x)
       IN  <<first>> \o Ordered(rows, ids \ {first}, sortBy)

Take(seq, n) == SubSeq(seq, 1, IF Len(seq) < n THEN Len(seq) ELSE n)

nextCursorOf(sortBy, lastPost) ==
  IF sortBy \in {"NEWEST", "OLDEST"}
  THEN toISOString(lastPost.createdAt) \o <<":">> \o numberToString(lastPost.id)
  ELSE numberToString(SortKey(sortBy, lastPost)) \o <<":">> \o numberToString(lastPost.id)

\* variant: the lookup of the bookmarks without the user_id condition
bookmarkedByAnyone(db, viewerUserId, postIds) ==
  IF viewerUserId # 0 /\ postIds # {}
  THEN {id \in postIds : \E b \in db.bookmarks : b[2] = id}
  ELSE {}

\* the one lookup of the viewer's bookmarks among the posts of the page
bookmarkedPostIds(db, viewerUserId, postIds) ==
  IF viewerUserId # 0 /\ postIds # {}
  THEN {id \in postIds : <<viewerUserId, id>> \in db.bookmarks}
  ELSE {}

\* getUserBookmarks: a page of at most limit of the user's bookmark rows; which
\* rows a short page holds depends on the times of the bookmarks, so every
\* choice of that many rows is a possible page
getUserBookmarks(db, userId, limit) ==
  LET mine == {b \in db.bookmarks : b[1] = userId}
      n == IF Cardinality(mine) < limit THEN Cardinality(mine) ELSE limit
  IN  {page \in SUBSET mine : Cardinality(page) = n}

\* getMyBookmarks: getPostById for each bookmark of the page, the posts that
\* are not found dropped, the others as summaries (as a set: their order is
\* that of the bookmarks).  The possible results, one per possible page.
getMyBookmarks(db, userId, limit) ==
  {{mapPostToSummary(getPostById(db, b[2], userId)[1]) :
      b \in {x \in page : getPostById(db, x[2], userId) # None}} :
   page \in getUserBookmarks(db, userId, IF limit = -1 THEN DefaultLimit ELSE limit)}

getPosts(db, o) ==
  LET cur == DecodedCursor(o) IN
  IF CursorRejected(cur) \/ TagsRejected(o)
  THEN [error |-> TRUE, posts |-> << >>, hasMore |-> FALSE, nextCursor |-> << >>]
  ELSE
  LET sortBy == SortByOf(o)
      limit == LimitOf(o)
      \* inner join user_profiles: only rows whose author has a profile
      ids == {id \in DOMAIN db.posts :
                db.posts[id].userId \in DOMAIN ProfileCity /\ Matches(o, cur, db.posts[id])}
      results == Take(Ordered(db.posts, ids, sortBy), limit + 1)
      hasMore == Len(results) > limit
      postsData == Take(results, limit)
      marked == bookmarkedPostIds(db, o.viewerUserId,
                                  {postsData[i] : i \in 1..Len(postsData)})
  IN  [error |-> FALSE,
       posts |-> [i \in 1..Len(postsData) |->
                    [post |-> db.posts[postsData[i]],
                     author |-> [userId |-> db.posts[postsData[i]].userId,
                                 city |-> ProfileCity[db.posts[postsData[i]].userId]],
                     isBookmarked |-> postsData[i] \in marked]],
       hasMore |-> hasMore,
       nextCursor |-> IF hasMore /\ Len(postsData) > 0
                      THEN nextCursorOf(sortBy, db.posts[postsData[Len(postsData)]])
                      ELSE << >>]

\* ---- the client's AuthProvider: its reducer
Tokens == {"a", "b"}
Runs == 1..MaxRuns

initialState == [status |-> "idle", token |-> Null, error |-> Null]

authReducer(state, action) ==
  CASE action.type = "AUTH_START" -> [status |-> "authenticating", token |-> Null, error |-> Null]
    [] action.type = "AUTH_SUCCESS" ->
         [status |-> "authenticated", token |-> action.token, error |-> Null]
    [] action.type = "AUTH_ERROR" -> [status |-> "error", token |-> Null, error |-> action.error]
    [] action.type = "LOGOUT" -> [status |-> "idle", token |-> Null, error |-> Null]
    [] action.type = "RESTORE_START" -> [status |-> "restoring", token |-> Null, error |-> Null]
    [] action.type = "RESTORE_COMPLETE" -> [status |-> "idle", token |-> Null, error |-> Null]
    [] OTHER -> state

Dispatch(state, type) == authReducer(state, [type |-> type, token |-> Null, error |-> Null])

\* a restoreAuth call that has not started
IdleRun == [pc |-> "idle", token |-> Null, by |-> Null, res |-> Null]

\* the store is empty and no call runs
ServerInit ==
  /\ posts = << >>
  /\ nextId = 1
  /\ notifications = << >>
  /\ bookmarks = {}
  /\ now = 0
  /\ call = [p \in Procs |-> IdleCall]

\* the provider before its first effect, with stored the token in localStorage
ClientInit(stored) ==
  /\ authState = initialState
  /\ localStorage = stored
  /\ clientToken = Null
  /\ restorationStarted = FALSE
  /\ restore = [r \in Runs |-> IdleRun]

Init == ServerInit /\ ClientInit(Null)

\* ------------------------------------------------------------------ createPost
CreatePost(userId, in) ==
  /\ nextId <= MaxPosts
  /\ posts' = posts @@ (nextId :>
       NewPostRow(nextId,
                  [userId |-> userId, type |-> "POST", parentId |-> 0,
                   audioUrl |-> getPublicUrl(AudioKey), audioKey |-> AudioKey, duration |-> 1,
                   tags |-> OrElse(in.tags, {}), city |-> OrElseStr(in.city, "singapore")],
                  now))
  /\ nextId' = nextId + 1
  /\ UNCHANGED <<notifications, bookmarks, now, call, clientVars>>

\* ------------------------------------------------------------------ createResponse
\* the call of the createResponse mutation by userId
createResponseCall(userId, parentId, tags, start) ==
  [IdleCall EXCEPT !.op = "createResponse", !.pc = "cr_select", !.userId = userId,
                   !.arg = parentId, !.tags = tags, !.start = start]

\* variant: the parent is loaded without the condition active = true
crSelectAnyRow(db) ==
  IF db.c.arg \notin DOMAIN db.posts
  THEN Rollback(db, "Parent post not found", "DATABASE_ERROR")
  ELSE [db EXCEPT !.c = [@ EXCEPT !.read = Some(db.posts[db.c.arg]), !.pc = "cr_insert"]]

\* the parent is loaded; a missing or inactive parent throws
crSelect(db) ==
  LET parentPost == SelectActive(db, db.c.arg)
  IN  IF parentPost = None
      THEN Rollback(db, "Parent post not found", "DATABASE_ERROR")
      ELSE [db EXCEPT !.c = [@ EXCEPT !.read = parentPost, !.pc = "cr_insert"]]

\* variant: the response row is inserted without its parent_id
crInsertNoParent(db) ==
  LET c == db.c
      newResponse == [userId |-> c.userId, type |-> "RESPONSE", parentId |-> 0,
                      audioUrl |-> getPublicUrl(AudioKey), audioKey |-> AudioKey,
                      duration |-> 1, tags |-> OrElse(c.tags, {}),
                      city |-> c.read[1].city]
  IN  [db EXCEPT !.nextId = @ + 1,
                 !.c = [@ EXCEPT !.new = Some(NewPostRow(db.nextId, newResponse, c.start)),
                                 !.pc = "cr_incr"]]

\* variant: the response row is inserted with the default city
crInsertDefaultCity(db) ==
  LET c == db.c
      newResponse == [userId |-> c.userId, type |-> "RESPONSE", parentId |-> c.arg,
                      audioUrl |-> getPublicUrl(AudioKey), audioKey |-> AudioKey,
                      duration |-> 1, tags |-> OrElse(c.tags, {}),
                      city |-> "singapore"]
  IN  [db EXCEPT !.nextId = @ + 1,
                 !.c = [@ EXCEPT !.new = Some(NewPostRow(db.nextId, newResponse, c.start)),
                                 !.pc = "cr_incr"]]

\* the response row is inserted; its id is drawn from the sequence of the table
crInsert(db) ==
  LET c == db.c
      newResponse == [userId |-> c.userId, type |-> "RESPONSE", parentId |-> c.arg,
                      audioUrl |-> getPublicUrl(AudioKey), audioKey |-> AudioKey,
                      duration |-> 1, tags |-> OrElse(c.tags, {}),
                      city |-> c.read[1].city]
  IN  [db EXCEPT !.nextId = @ + 1,
                 !.c = [@ EXCEPT !.new = Some(NewPostRow(db.nextId, newResponse, c.start)),
                                 !.pc = "cr_incr"]]

\* variant: the increment computed from the row the call selected before
IncrementedFromRead(row, parentPost) == parentPost.responseCount + 1

\* responseCount = responseCount + 1, evaluated by the store on the locked row
\* (parentPost is the row the call selected before)
Incremented(row, parentPost) == row.responseCount + 1

crIncr(db) ==
  [db EXCEPT !.c = [@ EXCEPT !.cntRow = db.c.arg,
                             !.cnt = Incremented(db.posts[db.c.arg], db.c.read[1]),
                             !.cntAt = db.now,
                             !.pc = "cr_notify"]]

\* variant: the notification is inserted for every response
ResponseNotificationAlways(parentPost, userId, parentId, responseId) ==
  Some([userId |-> parentPost.userId,
        data |-> [type |-> "RESPONSE", postId |-> parentId,
                  responseId |-> responseId, responderId |-> userId]])

\* the notification for the parent's owner, unless the responder owns the parent
ResponseNotification(parentPost, userId, parentId, responseId) ==
  IF parentPost.userId # userId
  THEN Some([userId |-> parentPost.userId,
             data |-> [type |-> "RESPONSE", postId |-> parentId,
                       responseId |-> responseId, responderId |-> userId]])
  ELSE None

crNotify(db) ==
  LET c == db.c
  IN  [db EXCEPT !.c = [@ EXCEPT
         !.note = ResponseNotification(c.read[1], c.userId, c.arg, c.new[1].id),
         !.pc = "cr_commit"]]

\* the transaction returns the response row
crCommit(db) ==
  [Commit(db) EXCEPT !.c.pc = "cr_reread", !.c.sres = "ok"]

\* the resolver reads the response back with its author and projects it;
\* mapPostToFull throws on a response that getPostById did not return
crReread(db) ==
  LET responseWithAuthor == getPostById(db, db.c.new[1].id, db.c.userId)
  IN  [db EXCEPT !.c = [@ EXCEPT !.pc = "done", !.read = None,
                                 !.res = IF responseWithAuthor = None
                                         THEN "DATABASE_ERROR" ELSE "ok"]]

\* ------------------------------------------------------------------ deletePost
deletePostCall(userId, postId, start) ==
  [IdleCall EXCEPT !.op = "deletePost", !.pc = "dp_select", !.userId = userId,
                   !.arg = postId, !.start = start]

\* variant: the post is loaded without the condition active = true
dpSelectAnyRow(db) ==
  IF db.c.arg \notin DOMAIN db.posts
  THEN [Commit(db) EXCEPT !.c.pc = "done", !.c.sres = "false", !.c.res = "NOT_FOUND"]
  ELSE IF db.posts[db.c.arg].userId # db.c.userId
  THEN Rollback(db, "Not authorized to delete this post", "DATABASE_ERROR")
  ELSE [db EXCEPT !.c = [@ EXCEPT !.read = Some(db.posts[db.c.arg]), !.pc = "dp_soft"]]

\* variant: the post is deleted whoever asks
dpSelectAnyUser(db) ==
  LET post == SelectActive(db, db.c.arg)
  IN  IF post = None
      THEN [Commit(db) EXCEPT !.c.pc = "done", !.c.sres = "false", !.c.res = "NOT_FOUND"]
      ELSE [db EXCEPT !.c = [@ EXCEPT !.read = post, !.pc = "dp_soft"]]

\* the post is loaded; the store function returns false for a missing or inactive
\* post and throws for a post of another user
dpSelect(db) ==
  LET post == SelectActive(db, db.c.arg)
  IN  IF post = None
      THEN [Commit(db) EXCEPT !.c.pc = "done", !.c.sres = "false", !.c.res = "NOT_FOUND"]
      ELSE IF post[1].userId # db.c.userId
      THEN Rollback(db, "Not authorized to delete this post", "DATABASE_ERROR")
      ELSE [db EXCEPT !.c = [@ EXCEPT !.read = post, !.pc = "dp_soft"]]

\* update posts set active = false where id = :postId
dpSoft(db) ==
  [db EXCEPT !.c = [@ EXCEPT !.softDel = TRUE, !.softAt = db.now, !.pc = "dp_decr"]]

\* variant: the decrement without GREATEST
DecrementedUnclamped(row) == row.responseCount - 1

\* variant: no decrement
NotDecremented(row) == row.responseCount

\* GREATEST(responseCount - 1, 0), evaluated by the store on the locked row
Decremented(row) == Max(row.responseCount - 1, 0)

\* variant: the count of the deleted post itself is decremented
dpParentSelf(c) == c.arg

\* the row whose responseCount deletePost decrements: the parent, if any
dpParent(c) == c.read[1].parentId

dpDecr(db) ==
  IF dpParent(db.c) # 0
  THEN [db EXCEPT !.c = [@ EXCEPT !.cntRow = dpParent(db.c),
                                  !.cnt = Decremented(db.posts[dpParent(db.c)]),
                                  !.cntAt = db.now,
                                  !.pc = "dp_commit"]]
  ELSE [db EXCEPT !.c = [@ EXCEPT !.pc = "dp_commit"]]

dpCommit(db) ==
  [Commit(db) EXCEPT !.c.pc = "done", !.c.read = None, !.c.sres = "true", !.c.res = "ok"]

\* ------------------------------------------------------------------ bookmarkPost
\* the call of the bookmarkPost mutation by userId
bookmarkPostCall(userId, postId) ==
  [IdleCall EXCEPT !.op = "bookmarkPost", !.pc = "ab_insert", !.userId = userId,
                   !.arg = postId]

\* variant: no unique constraint on (user_id, post_id)
NoUniqueConstraint(rows, key) == FALSE

\* unique(user_id, post_id): a row with the key exists
UniqueViolation(rows, key) == key \in rows

\* the resolver passes the message of the error on, with the code DATABASE_ERROR
bookmarkPostError(message) == [sres |-> message, res |-> "DATABASE_ERROR"]

\* the bookmark row is inserted; the post must exist (post_id references posts.id)
\* and the key must be new
abInsert(db) ==
  LET key == <<db.c.userId, db.c.arg>>
  IN  IF db.c.arg \notin DOMAIN db.posts
      THEN Rollback(db, bookmarkPostError("store error").sres, bookmarkPostError("store error").res)
      ELSE IF UniqueViolation(db.bookmarks, key)
      THEN Rollback(db, bookmarkPostError("already bookmarked").sres,
                    bookmarkPostError("already bookmarked").res)
      ELSE [db EXCEPT !.c = [@ EXCEPT !.bmAdd = {key}, !.pc = "ab_incr"]]

\* bookmarkCount = bookmarkCount + 1, evaluated by the store on the locked row
abIncr(db) ==
  [db EXCEPT !.c = [@ EXCEPT !.cntRow = db.c.arg, !.cntCol = "bookmarkCount",
                             !.cnt = db.posts[db.c.arg].bookmarkCount + 1,
                             !.pc = "ab_commit"]]

abCommit(db) ==
  [Commit(db) EXCEPT !.c.pc = "done", !.c.sres = "ok", !.c.res = "ok"]

\* ------------------------------------------------------------------ removeBookmark
removeBookmarkCall(userId, postId) ==
  [IdleCall EXCEPT !.op = "removeBookmark", !.pc = "rb_delete", !.userId = userId,
                   !.arg = postId]

\* variant: the resolver reports success whatever the store returned
removeBookmarkAlwaysOk(removed) == "ok"

\* the resolver: NOT_FOUND when the store removed nothing
removeBookmarkResult(removed) == IF ~removed THEN "NOT_FOUND" ELSE "ok"

\* variant: the count is decremented whether or not a row was deleted
rbDeleteAlways(db) ==
  LET key == <<db.c.userId, db.c.arg>>
  IN  IF db.c.arg \notin DOMAIN db.posts
      THEN [Commit(db) EXCEPT !.c.pc = "done", !.c.sres = "false",
                              !.c.res = removeBookmarkResult(FALSE)]
      ELSE [db EXCEPT !.c = [@ EXCEPT !.bmDel = {key} \cap db.bookmarks, !.pc = "rb_decr"]]

\* the row of the pair is deleted; nothing is removed when there is none
rbDelete(db) ==
  LET key == <<db.c.userId, db.c.arg>>
  IN  IF key \notin db.bookmarks
      THEN [Commit(db) EXCEPT !.c.pc = "done", !.c.sres = "false",
                              !.c.res = removeBookmarkResult(FALSE)]
      ELSE [db EXCEPT !.c = [@ EXCEPT !.bmDel = {key}, !.pc = "rb_decr"]]

\* bookmarkCount = GREATEST(bookmarkCount - 1, 0), evaluated on the locked row
rbDecr(db) ==
  [db EXCEPT !.c = [@ EXCEPT !.cntRow = db.c.arg, !.cntCol = "bookmarkCount",
                             !.cnt = Max(db.posts[db.c.arg].bookmarkCount - 1, 0),
                             !.pc = "rb_commit"]]

rbCommit(db) ==
  [Commit(db) EXCEPT !.c.pc = "done", !.c.sres = "true",
                     !.c.res = removeBookmarkResult(TRUE)]

\* ------------------------------------------------------------------ running a call
InTransaction(c) == c.pc \in {"cr_insert", "cr_incr", "cr_notify", "cr_commit",
                              "dp_soft", "dp_decr", "dp_commit",
                              "ab_incr", "ab_commit", "rb_decr", "rb_commit"}

\* the next statement of the call
Statement(db) ==
  CASE db.c.pc = "cr_select" -> crSelect(db)
    [] db.c.pc = "cr_insert" -> crInsert(db)
    [] db.c.pc = "cr_incr"   -> crIncr(db)
    [] db.c.pc = "cr_notify" -> crNotify(db)
    [] db.c.pc = "cr_commit" -> crCommit(db)
    [] db.c.pc = "cr_reread" -> crReread(db)
    [] db.c.pc = "dp_select" -> dpSelect(db)
    [] db.c.pc = "dp_soft"   -> dpSoft(db)
    [] db.c.pc = "dp_decr"   -> dpDecr(db)
    [] db.c.pc = "dp_commit" -> dpCommit(db)
    [] db.c.pc = "ab_insert" -> abInsert(db)
    [] db.c.pc = "ab_incr"   -> abIncr(db)
    [] db.c.pc = "ab_commit" -> abCommit(db)
    [] db.c.pc = "rb_delete" -> rbDelete(db)
    [] db.c.pc = "rb_decr"   -> rbDecr(db)
    [] db.c.pc = "rb_commit" -> rbCommit(db)

\* the rows the next statement updates, which it waits for while they are locked
Needs(c) ==
  CASE c.pc = "cr_incr" -> {c.arg}
    [] c.pc = "dp_soft" -> {c.arg}
    [] c.pc = "dp_decr" -> {dpParent(c)} \ {0}
    [] c.pc = "ab_incr" -> {c.arg}
    [] c.pc = "rb_decr" -> {c.arg}
    [] OTHER -> {}

\* the bookmark keys the next statement inserts or deletes
KeyNeeds(c) ==
  IF c.pc \in {"ab_insert", "rb_delete"} THEN {<<c.userId, c.arg>>} ELSE {}

\* the whole call, alone on the store; the store fails at statement failAt, if ever
RECURSIVE Run(_, _)
Run(db, failAt) ==
  IF db.c.pc = "done" THEN db
  ELSE IF db.c.pc = failAt /\ InTransaction(db.c)
  THEN Rollback(db, "store error", "DATABASE_ERROR")
  ELSE Run(Statement(db), failAt)

Write(p, db) ==
  /\ posts' = db.posts
  /\ nextId' = db.nextId
  /\ notifications' = db.notifications
  /\ call' = [call EXCEPT ![p] = db.c]
  /\ bookmarks' = db.bookmarks
  /\ UNCHANGED <<now, clientVars>>

\* ---- a call as one step (calls that do not overlap)
CreateFailPoints == {"never", "cr_insert", "cr_incr", "cr_notify", "cr_commit"}
DeleteFailPoints == {"never", "dp_soft", "dp_decr", "dp_commit"}

CreateResponse(p, userId, parentId, tags, failAt) ==
  /\ call[p].pc = "idle"
  /\ nextId <= MaxPosts
  /\ Write(p, Run([Db(p) EXCEPT !.c = createResponseCall(userId, parentId, tags, now)], failAt))

DeletePost(p, userId, postId, failAt) ==
  /\ call[p].pc = "idle"
  /\ Write(p, Run([Db(p) EXCEPT !.c = deletePostCall(userId, postId, now)], failAt))

\* ---- a call statement by statement (calls that overlap)
BeginCreateResponse(p, userId, parentId, tags) ==
  /\ call[p].pc = "idle"
  /\ call' = [call EXCEPT ![p] = createResponseCall(userId, parentId, tags, now)]
  /\ UNCHANGED <<posts, nextId, notifications, bookmarks, now, clientVars>>

BeginDeletePost(p, userId, postId) ==
  /\ call[p].pc = "idle"
  /\ call' = [call EXCEPT ![p] = deletePostCall(userId, postId, now)]
  /\ UNCHANGED <<posts, nextId, notifications, bookmarks, now, clientVars>>

BeginBookmarkPost(p, userId, postId) ==
  /\ call[p].pc = "idle"
  /\ call' = [call EXCEPT ![p] = bookmarkPostCall(userId, postId)]
  /\ UNCHANGED <<posts, nextId, notifications, bookmarks, now, clientVars>>

BeginRemoveBookmark(p, userId, postId) ==
  /\ call[p].pc = "idle"
  /\ call' = [call EXCEPT ![p] = removeBookmarkCall(userId, postId)]
  /\ UNCHANGED <<posts, nextId, notifications, bookmarks, now, clientVars>>

Do(p) ==
  /\ call[p].pc \notin {"idle", "done"}
  /\ call[p].pc = "cr_insert" => nextId <= MaxPosts
  /\ \A id \in Needs(call[p]) : ~LockedByOther(p, id)
  /\ \A key \in KeyNeeds(call[p]) : ~KeyLockedByOther(p, key, call[p].pc)
  /\ Write(p, Statement(Db(p)))

\* the store fails while the transaction is open
StoreFails(p) ==
  /\ InTransaction(call[p])
  /\ Write(p, Rollback(Db(p), "store error", "DATABASE_ERROR"))

\* the call has returned to its caller
Return(p) ==
  /\ call[p].pc = "done"
  /\ call' = [call EXCEPT ![p] = IdleCall]
  /\ UNCHANGED <<posts, nextId, notifications, bookmarks, now, clientVars>>

\* ------------------------------------------------------------------ the resolvers
\* the rows of the users table; a token may name a user that has no row
UserRows == Users
GhostUser == 3
\* context.user of a request: none (0), a user, or a user without a row
Contexts == {0} \cup Users \cup {GhostUser}

\* the post and bookmark queries and mutations
PostOps == {"getPosts", "getPostById", "getResponses", "createPost", "createResponse",
            "deletePost", "bookmarkPost", "removeBookmark"}

\* variant: a request without a user passes
getAuthenticatedUserUnchecked(contextUser) ==
  IF contextUser # 0 /\ contextUser \notin UserRows
  THEN [ok |-> FALSE, code |-> "NOT_FOUND", id |-> 0]
  ELSE [ok |-> TRUE, code |-> "ok", id |-> contextUser]

\* getAuthenticatedUser: UNAUTHORIZED without context.user, NOT_FOUND without
\* the user's row
getAuthenticatedUser(contextUser) ==
  IF contextUser = 0
  THEN [ok |-> FALSE, code |-> "UNAUTHORIZED", id |-> 0]
  ELSE IF contextUser \notin UserRows
  THEN [ok |-> FALSE, code |-> "NOT_FOUND", id |-> 0]
  ELSE [ok |-> TRUE, code |-> "ok", id |-> contextUser]

\* ---- the response of a query: the fields of the selection are serialized by
\* the scalars of their types
\* GraphQLPositiveInt: an integer greater than 0, anything else is an error
serializePositiveInt(value) == value > 0

\* the fields of PostSummary and Post declared PositiveInt! (parentId is
\* nullable and null for a post without parent)
PositiveIntFields == {"id", "userId", "duration", "responseCount", "bookmarkCount"}

serializable(projection) ==
  /\ \A f \in PositiveIntFields : serializePositiveInt(projection[f])
  /\ projection.parentId # 0 => serializePositiveInt(projection.parentId)

\* Query.getPostById with every field selected: null for no post, the full
\* view otherwise; an error in a non-null field leaves no data
QueryGetPostById(db, id, viewerUserId) ==
  LET found == getPostById(db, id, viewerUserId)
  IN  IF found = None THEN [errors |-> FALSE, data |-> None]
      ELSE IF serializable(mapPostToFull(found[1]))
      THEN [errors |-> FALSE, data |-> Some(mapPostToFull(found[1]))]
      ELSE [errors |-> TRUE, data |-> None]

\* Query.getPosts with every field selected (posts: [PostSummary!]!)
QueryGetPosts(db, o) ==
  LET result == getPosts(db, o)
      summaries == [i \in 1..Len(result.posts) |-> mapPostToSummary(result.posts[i])]
  IN  IF result.error THEN [errors |-> TRUE, data |-> << >>]
      ELSE IF \A i \in 1..Len(summaries) : serializable(summaries[i])
      THEN [errors |-> FALSE, data |-> summaries]
      ELSE [errors |-> TRUE, data |-> << >>]

\* limit || 20, for an absent limit (0)
LimitOrDefault(limit) == IF limit = 0 THEN DefaultLimit ELSE limit

\* the options Query.getMyPosts passes to getPosts for the authenticated user:
\* an absent type is passed as undefined
getMyPostsOptions(user, type, sortBy, limit) ==
  [NoOptions EXCEPT !.userId = user, !.type = type, !.sortBy = OrElseStr(sortBy, "NEWEST"),
                    !.limit = LimitOrDefault(limit), !.viewerUserId = user]

\* the options Query.getUserPosts passes to getPosts
getUserPostsOptions(viewer, userId, type, sortBy, limit) ==
  [NoOptions EXCEPT !.userId = userId, !.type = type, !.sortBy = OrElseStr(sortBy, "NEWEST"),
                    !.limit = LimitOrDefault(limit), !.viewerUserId = viewer]

\* the call of a resolver that ended with code and wrote nothing
resolved(op, contextUser, arg, code) ==
  [IdleCall EXCEPT !.op = op, !.pc = "done", !.userId = contextUser, !.arg = arg,
                   !.res = code]

\* A request for one of the post and bookmark resolvers, from start to end.
\* Each resolver first calls getAuthenticatedUser and passes its error on.
Request(p, op, contextUser, id) ==
  /\ call[p].pc = "idle"
  /\ LET a == getAuthenticatedUser(contextUser)
     IN  IF ~a.ok
         THEN /\ call' = [call EXCEPT ![p] = resolved(op, contextUser, id, a.code)]
              /\ UNCHANGED <<posts, nextId, notifications, bookmarks, now, clientVars>>
         ELSE CASE op \in {"getPosts", "getPostById", "getResponses"} ->
                     /\ call' = [call EXCEPT ![p] = resolved(op, a.id, id, "ok")]
                     /\ UNCHANGED <<posts, nextId, notifications, bookmarks, now, clientVars>>
                [] op = "createPost" ->
                     IF a.id \notin DOMAIN ProfileCity
                     THEN /\ call' = [call EXCEPT ![p] = resolved(op, a.id, 0, "INVALID_INPUT")]
                          /\ UNCHANGED <<posts, nextId, notifications, bookmarks, now, clientVars>>
                     ELSE /\ nextId <= MaxPosts
                          /\ posts' = posts @@ (nextId :>
                               NewPostRow(nextId,
                                          [userId |-> a.id, type |-> "POST", parentId |-> 0,
                                           audioUrl |-> getPublicUrl(AudioKey),
                                           audioKey |-> AudioKey, duration |-> 1,
                                           tags |-> {}, city |-> ProfileCity[a.id]],
                                          now))
                          /\ nextId' = nextId + 1
                          /\ call' = [call EXCEPT ![p] = resolved(op, a.id, nextId, "ok")]
                          /\ UNCHANGED <<notifications, bookmarks, now, clientVars>>
                [] op = "createResponse" ->
                     /\ nextId <= MaxPosts
                     /\ Write(p, Run([Db(p) EXCEPT !.c = createResponseCall(a.id, id, None, now)],
                                     "never"))
                [] op = "deletePost" ->
                     Write(p, Run([Db(p) EXCEPT !.c = deletePostCall(a.id, id, now)], "never"))
                [] op = "bookmarkPost" ->
                     Write(p, Run([Db(p) EXCEPT !.c = bookmarkPostCall(a.id, id)], "never"))
                [] op = "removeBookmark" ->
                     Write(p, Run([Db(p) EXCEPT !.c = removeBookmarkCall(a.id, id)], "never"))

\* ------------------------------------------------------------------ a traversal
\* A client pages through its own posts (the getMyPosts query): it calls with no
\* cursor, then with the nextCursor of the page before, until hasMore is false.
\* seen is what the pages returned so far; stay is the posts that the listing
\* could return at every fetch so far.
PageOptions(c) ==
  [NoOptions EXCEPT !.userId = c.userId, !.viewerUserId = c.userId, !.sortBy = c.sortBy,
                    !.limit = c.limit, !.engine = c.engine, !.cursor = c.cursor]

\* the rows of the query without a cursor: the conditions, and the inner join
Listed(db, o) ==
  LET first == [o EXCEPT !.cursor = << >>]
  IN  {id \in DOMAIN db.posts :
         /\ db.posts[id].userId \in DOMAIN ProfileCity
         /\ Matches(first, DecodedCursor(first), db.posts[id])}

traversalCall(userId, sortBy, limit, engine) ==
  [IdleCall EXCEPT !.op = "traverse", !.pc = "page", !.userId = userId,
                   !.sortBy = sortBy, !.limit = limit, !.engine = engine]

BeginTraversal(p, userId, sortBy, limit, engine) ==
  /\ call[p].pc = "idle"
  /\ call' = [call EXCEPT ![p] =
       [traversalCall(userId, sortBy, limit, engine) EXCEPT
          !.stay = Listed(Db(p), PageOptions(traversalCall(userId, sortBy, limit, engine)))]]
  /\ UNCHANGED <<posts, nextId, notifications, bookmarks, now, clientVars>>

\* one call of the query; a store error ends the traversal
FetchPage(p) ==
  /\ call[p].op = "traverse"
  /\ call[p].pc = "page"
  /\ LET c == call[p]
         result == getPosts(Db(p), PageOptions(c))
         got == [c EXCEPT !.fetches = @ + 1,
                          !.seen = @ \o [i \in 1..Len(result.posts) |-> result.posts[i].post.id],
                          !.stay = @ \cap Listed(Db(p), PageOptions(c))]
     IN  call' = [call EXCEPT ![p] =
           IF result.error THEN [c EXCEPT !.pc = "done", !.res = "DATABASE_ERROR"]
           ELSE IF ~result.hasMore THEN [got EXCEPT !.pc = "done", !.res = "ok"]
           ELSE IF got.fetches >= MaxFetches THEN [got EXCEPT !.pc = "done", !.res = "gave up"]
           ELSE [got EXCEPT !.cursor = result.nextCursor]]
  /\ UNCHANGED <<posts, nextId, notifications, bookmarks, now, clientVars>>

\* ------------------------------------------------------------------ the worker
\* variant: the status update also clears the stored waveformUrl
UpdatePostStatusAndUrl(postId, status) ==
  /\ postId \in DOMAIN posts
  /\ ~Locked(postId)
  /\ posts' = [posts EXCEPT ![postId].status = status, ![postId].updatedAt = now,
                            ![postId].waveformUrl = Null]
  /\ UNCHANGED <<nextId, notifications, bookmarks, now, call, clientVars>>

UpdatePostStatus(postId, status) ==
  /\ postId \in DOMAIN posts
  /\ ~Locked(postId)
  /\ posts' = [posts EXCEPT ![postId].status = status, ![postId].updatedAt = now]
  /\ UNCHANGED <<nextId, notifications, bookmarks, now, call, clientVars>>

\* variant: the waveform update also sets the status to PROCESSED
UpdatePostWaveformUrlAndStatus(postId, waveformUrl) ==
  /\ postId \in DOMAIN posts
  /\ ~Locked(postId)
  /\ posts' = [posts EXCEPT ![postId].waveformUrl = waveformUrl, ![postId].updatedAt = now,
                             ![postId].status = "PROCESSED"]
  /\ UNCHANGED <<nextId, notifications, bookmarks, now, call, clientVars>>

UpdatePostWaveformUrl(postId, waveformUrl) ==
  /\ postId \in DOMAIN posts
  /\ ~Locked(postId)
  /\ posts' = [posts EXCEPT ![postId].waveformUrl = waveformUrl, ![postId].updatedAt = now]
  /\ UNCHANGED <<nextId, notifications, bookmarks, now, call, clientVars>>

\* ------------------------------------------------------------------ bookmarks
\* bookmark(userId, postId): the row is inserted unless the pair exists (the
\* unique constraint), and the post's bookmarkCount is incremented
AddBookmark(userId, postId) ==
  /\ postId \in DOMAIN posts
  /\ <<userId, postId>> \notin bookmarks
  /\ ~Locked(postId)
  /\ bookmarks' = bookmarks \cup {<<userId, postId>>}
  /\ posts' = [posts EXCEPT ![postId].bookmarkCount = @ + 1]
  /\ UNCHANGED <<nextId, notifications, now, call, clientVars>>

\* removeBookmark(userId, postId): the row is deleted if present, and the post's
\* bookmarkCount is decremented, floored at zero
RemoveBookmark(userId, postId) ==
  /\ <<userId, postId>> \in bookmarks
  /\ ~Locked(postId)
  /\ bookmarks' = bookmarks \ {<<userId, postId>>}
  /\ posts' = [posts EXCEPT ![postId].bookmarkCount = Max(@ - 1, 0)]
  /\ UNCHANGED <<nextId, notifications, now, call, clientVars>>

\* ------------------------------------------------------------------ time
Tick ==
  /\ now < MaxTime
  /\ now' = now + 1
  /\ UNCHANGED <<posts, nextId, notifications, bookmarks, call, clientVars>>

\* ------------------------------------------------------------------ the client
\* setAuthToken(token): the token the GraphQL client sends from now on
setAuthToken(token) == token

\* restoreAuth up to its first await, as call r started by the effect or by a
\* caller: with a stored token the validation request is sent, without one the
\* call ends
restoreAuthStart(r, by) ==
  LET started == Dispatch(authState, "RESTORE_START")
      token == localStorage
  IN  /\ restore[r].pc = "idle"
      /\ IF token # Null
         THEN /\ clientToken' = setAuthToken(token)
              /\ authState' = started
              /\ restore' = [restore EXCEPT ![r] =
                   [pc |-> "awaiting", token |-> token, by |-> by, res |-> Null]]
         ELSE /\ clientToken' = clientToken
              /\ authState' = Dispatch(started, "RESTORE_COMPLETE")
              /\ restore' = [restore EXCEPT ![r] =
                   [pc |-> "done", token |-> Null, by |-> by,
                    res |-> Dispatch(started, "RESTORE_COMPLETE").status]]
      /\ UNCHANGED <<localStorage, serverVars>>

\* variant: the effect without the restorationStarted ref
EffectEveryIdle(r) ==
  /\ authState.status = "idle"
  /\ restorationStarted' = TRUE
  /\ restoreAuthStart(r, "effect")

\* the provider's effect: the restore on mount
Effect(r) ==
  /\ authState.status = "idle" /\ ~restorationStarted
  /\ restorationStarted' = TRUE
  /\ restoreAuthStart(r, "effect")

\* restoreAuth called through the context
CallRestoreAuth(r) ==
  /\ restorationStarted' = restorationStarted
  /\ restoreAuthStart(r, "call")

\* the validation request of call r returns (valid or invalid) or fails
ValidationReturns(r, outcome) ==
  /\ restore[r].pc = "awaiting"
  /\ IF outcome = "valid"
     THEN /\ authState' = authReducer(authState, [type |-> "AUTH_SUCCESS",
                                                  token |-> restore[r].token, error |-> Null])
          /\ UNCHANGED <<localStorage, clientToken>>
     ELSE /\ localStorage' = Null
          /\ clientToken' = setAuthToken(Null)
          /\ authState' = Dispatch(authState, "RESTORE_COMPLETE")
  /\ restore' = [restore EXCEPT ![r].pc = "done", ![r].res = authState'.status]
  /\ UNCHANGED <<restorationStarted, serverVars>>

\* the promise of call r is settled and dropped
Settled(r) ==
  /\ restore[r].pc = "done"
  /\ restore' = [restore EXCEPT ![r] = IdleRun]
  /\ UNCHANGED <<authState, localStorage, clientToken, restorationStarted, serverVars>>

logout ==
  /\ clientToken' = setAuthToken(Null)
  /\ authState' = Dispatch(authState, "LOGOUT")
  /\ localStorage' = Null
  /\ UNCHANGED <<restorationStarted, restore, serverVars>>

\* ------------------------------------------------------------------ specifications
\* Spec: the calls of createPost, createResponse and deletePost one after the
\* other, each a single step, by both users and with every optional argument,
\* while time passes.
Next ==
  \/ \E u \in Users, in \in PostInputs : NoneRunning /\ CreatePost(u, in)
  \/ \E u \in Users, id \in PostIds, t \in ResponseTags, f \in CreateFailPoints :
       CreateResponse(1, u, id, t, f)
  \/ \E u \in Users, id \in PostIds, f \in DeleteFailPoints : DeletePost(1, u, id, f)
  \/ Return(1)
  \/ NoneRunning /\ Tick

Spec == Init /\ [][Next]_vars

\* SpecTx: calls of several requests of one user at once, the statements of
\* their transactions interleaved and failing, and that user's bookmark of the
\* first post.
NextTx ==
  \/ CreatePost(1, BasePostInput)
  \/ AddBookmark(1, 1)
  \/ RemoveBookmark(1, 1)
  \/ \E p \in Procs :
       \/ \E id \in PostIds : BeginCreateResponse(p, 1, id, None)
       \/ \E id \in PostIds : BeginDeletePost(p, 1, id)
       \/ Do(p)
       \/ StoreFails(p)
       \/ Return(p)

SpecTx == Init /\ [][NextTx]_vars

\* SpecAll: every operation on the store, one after the other, on a store of
\* at most MaxPostsAll posts, all created at the same time.
NextAll ==
  \/ \E u \in Users : NoneRunning /\ nextId <= MaxPostsAll /\ CreatePost(u, BasePostInput)
  \/ \E u \in Users, id \in 1..MaxPostsAll :
       nextId <= MaxPostsAll /\ CreateResponse(1, u, id, None, "never")
  \/ \E u \in Users, id \in 1..MaxPostsAll : DeletePost(1, u, id, "never")
  \/ \E id \in 1..MaxPostsAll, s \in Statuses : NoneRunning /\ UpdatePostStatus(id, s)
  \/ \E id \in 1..MaxPostsAll : NoneRunning /\ UpdatePostWaveformUrl(id, "waveform")
  \/ \E u \in Users, id \in 1..MaxPostsAll : NoneRunning /\ AddBookmark(u, id)
  \/ \E u \in Users, id \in 1..MaxPostsAll : NoneRunning /\ RemoveBookmark(u, id)
  \/ Return(1)

SpecAll == Init /\ [][NextAll]_vars

\* SpecStatus: a user's posts, responses, bookmarks and deletes, and the worker
\* that sets status and waveformUrl, while time passes.
NextStatus ==
  \/ NoneRunning /\ nextId <= MaxPostsAll /\ CreatePost(1, BasePostInput)
  \/ \E id \in 1..MaxPostsAll : nextId <= MaxPostsAll /\ CreateResponse(1, 1, id, None, "never")
  \/ \E id \in 1..MaxPostsAll : DeletePost(1, 1, id, "never")
  \/ \E id \in 1..MaxPostsAll, st \in Statuses : NoneRunning /\ UpdatePostStatus(id, st)
  \/ \E id \in 1..MaxPostsAll : NoneRunning /\ UpdatePostWaveformUrl(id, "waveform")
  \/ \E id \in 1..MaxPostsAll : NoneRunning /\ AddBookmark(1, id)
  \/ NoneRunning /\ Tick
  \/ Return(1)

SpecStatus == Init /\ [][NextStatus]_vars

\* SpecBm: bookmarkPost and removeBookmark calls of both users at once, their
\* statements interleaved, on posts that exist and on one that does not.
NextBm ==
  \/ NoneRunning /\ nextId <= MaxPostsBm /\ CreatePost(1, BasePostInput)
  \/ \E p \in Procs :
       \/ \E u \in Users, id \in 1..MaxPostsBm : BeginBookmarkPost(p, u, id)
       \/ \E u \in Users, id \in 1..MaxPostsBm : BeginRemoveBookmark(p, u, id)
       \/ Do(p)
       \/ Return(p)

SpecBm == Init /\ [][NextBm]_vars

\* SpecAuth: requests for the post and bookmark resolvers, with and without an
\* authenticated user, one after the other.
NextAuth ==
  \/ \E op \in PostOps, contextUser \in Contexts, id \in 1..MaxPostsBm :
       /\ op \in {"createPost", "createResponse"} => nextId <= MaxPostsBm
       /\ Request(1, op, contextUser, id)
  \/ Return(1)

SpecAuth == Init /\ [][NextAuth]_vars

\* SpecSaved: posts of the user with a profile, responses, deletes and bookmarks
\* of both users; the store that getMyBookmarks is read on.
NextSaved ==
  \/ NoneRunning /\ nextId <= MaxPostsRead /\ CreatePost(1, BasePostInput)
  \/ \E u \in Users, id \in 1..MaxPostsRead :
       nextId <= MaxPostsRead /\ CreateResponse(1, u, id, None, "never")
  \/ \E u \in Users, id \in 1..MaxPostsRead : DeletePost(1, u, id, "never")
  \/ \E u \in Users, id \in 1..MaxPostsRead : NoneRunning /\ AddBookmark(u, id)
  \/ \E u \in Users, id \in 1..MaxPostsRead : NoneRunning /\ RemoveBookmark(u, id)
  \/ Return(1)

SpecSaved == Init /\ [][NextSaved]_vars

\* SpecDelete: a post, responses to posts and to responses, deletes by both
\* users and bookmarks, while time passes.
NextDelete ==
  \/ NoneRunning /\ nextId <= MaxPostsRead /\ CreatePost(1, BasePostInput)
  \/ \E u \in Users, id \in 1..MaxPostsRead :
       nextId <= MaxPostsRead /\ CreateResponse(1, u, id, None, "never")
  \/ \E u \in Users, id \in 1..MaxPostsRead : DeletePost(1, u, id, "never")
  \/ \E id \in 1..MaxPostsRead : NoneRunning /\ AddBookmark(2, id)
  \/ NoneRunning /\ Tick
  \/ Return(1)

SpecDelete == Init /\ [][NextDelete]_vars

\* SpecClient: the AuthProvider from its mount, with or without a token left
\* in localStorage by an earlier session: the effect, restoreAuth calls through
\* the context, the answers of the validation requests, and logout.
InitClient == ServerInit /\ \E stored \in Tokens \cup {Null} : ClientInit(stored)

NextClient ==
  \/ \E r \in Runs : Effect(r)
  \/ \E r \in Runs : CallRestoreAuth(r)
  \/ \E r \in Runs, outcome \in {"valid", "invalid", "fails"} : ValidationReturns(r, outcome)
  \/ \E r \in Runs : Settled(r)
  \/ logout

SpecClient == InitClient /\ [][NextClient]_vars

\* SpecRead: the writes of both users to posts, responses and bookmarks, one
\* after the other, on a store of at most MaxPostsRead posts.
NextRead ==
  \/ \E u \in Users : NoneRunning /\ nextId <= MaxPostsRead /\ CreatePost(u, BasePostInput)
  \/ \E u \in Users, id \in 1..MaxPostsRead :
       nextId <= MaxPostsRead /\ CreateResponse(1, u, id, None, "never")
  \/ \E id \in 1..MaxPostsRead : DeletePost(1, 1, id, "never")
  \/ \E u \in Users, id \in 1..MaxPostsRead : NoneRunning /\ AddBookmark(u, id)
  \/ \E u \in Users, id \in 1..MaxPostsRead : NoneRunning /\ RemoveBookmark(u, id)
  \/ Return(1)

SpecRead == Init /\ [][NextRead]_vars

\* SpecPage: a user with a profile writes posts, responses and bookmarks, and
\* pages through their posts while the store does not change.
PageLimits == {1, 2}
Engines == {"strict", "lenient"}

NextPage ==
  \/ NoneRunning /\ CreatePost(1, BasePostInput)
  \/ \E id \in PostIds : CreateResponse(1, 1, id, None, "never")
  \/ \E id \in PostIds : DeletePost(1, 1, id, "never")
  \/ \E id \in PostIds : NoneRunning /\ AddBookmark(1, id)
  \/ \E id \in PostIds : NoneRunning /\ RemoveBookmark(1, id)
  \/ NoneRunning /\ Tick
  \/ \E s \in SortOrders, l \in PageLimits, e \in Engines : BeginTraversal(1, 1, s, l, e)
  \/ FetchPage(1)
  \/ Return(1)

SpecPage == Init /\ [][NextPage]_vars

\* SpecFeed: the same user pages through their posts by a count-based order
\* while their other requests write bookmarks, responses and deletes.
CountOrders == {"MOST_SAVED", "LEAST_SAVED", "MOST_RESPONSES", "LEAST_RESPONSES"}

NextFeed ==
  \/ call[1].pc = "idle" /\ call[2].pc = "idle" /\ CreatePost(1, BasePostInput)
  \/ \E id \in PostIds : CreateResponse(1, 1, id, None, "never")
  \/ \E id \in PostIds : DeletePost(1, 1, id, "never")
  \/ \E id \in PostIds : call[1].pc = "idle" /\ AddBookmark(1, id)
  \/ \E id \in PostIds : call[1].pc = "idle" /\ RemoveBookmark(1, id)
  \/ Return(1)
  \/ \E s \in CountOrders : BeginTraversal(2, 1, s, 1, "strict")
  \/ FetchPage(2)
  \/ Return(2)

SpecFeed == Init /\ [][NextFeed]_vars

\* ------------------------------------------------------------------ properties
\* the committed tables, as a call that starts now sees them
Store == [posts |-> posts, nextId |-> nextId, notifications |-> notifications,
          bookmarks |-> bookmarks, now |-> now, c |-> IdleCall]

\* the responses of post id, and those that are active
Responses(id) == {r \in DOMAIN posts : posts[r].parentId = id}
ActiveResponses(id) == {r \in DOMAIN posts : posts[r].parentId = id /\ posts[r].active}

\* process p makes a whole call of op in this step
Called(p, op) == call[p].pc = "idle" /\ call'[p].pc = "done" /\ call'[p].op = op

StoreUnchanged == posts' = posts /\ notifications' = notifications /\ bookmarks' = bookmarks

\* C1: after any sequence of createPost, createResponse and deletePost calls, the
\* stored responseCount of every post is the number of its active responses.
C1_ResponseCountIsActiveResponses ==
  \A id \in DOMAIN posts : posts[id].responseCount = Cardinality(ActiveResponses(id))

\* a post that has an active response and a deleted one
C1_Witness ==
  \E id \in DOMAIN posts :
    /\ posts[id].responseCount = 1
    /\ \E r \in Responses(id) : ~posts[r].active

\* C2: createResponse calls on one parent whose statements interleave lose no
\* increment: while no response of a post has been deleted, its responseCount is
\* the number of responses committed under it.
C2_NoLostIncrement ==
  \A id \in DOMAIN posts :
    Responses(id) = ActiveResponses(id) =>
      posts[id].responseCount = Cardinality(Responses(id))

\* two calls on one parent have both committed, each having selected the parent
\* before the other committed, and the parent counts both
C2_Witness ==
  \E p, q \in Procs :
    /\ p # q
    /\ call[p].pc = "cr_reread" /\ call[q].pc = "cr_reread"
    /\ call[p].arg = call[q].arg
    /\ call[p].read[1].responseCount = 0 /\ call[q].read[1].responseCount = 0
    /\ posts[call[p].arg].responseCount = 2

\* C3: whenever a step lowers a post's responseCount, a response of that post
\* changes from active to inactive in that step (a response deleted by two racing
\* calls is decremented once).
C3_DecrementOncePerDeletedResponse ==
  [][\A id \in DOMAIN posts :
       posts'[id].responseCount < posts[id].responseCount =>
         \E r \in Responses(id) : posts[r].active /\ ~posts'[r].active]_vars

\* C4: deletePost on a post that is already inactive returns false (NOT_FOUND at
\* the API) and changes nothing.
C4_DeleteInactiveIsNotFound ==
  [][\A p \in Procs :
       (/\ Called(p, "deletePost")
        /\ call'[p].arg \in DOMAIN posts
        /\ ~posts[call'[p].arg].active)
       => (/\ call'[p].sres = "false"
           /\ call'[p].res = "NOT_FOUND"
           /\ StoreUnchanged)]_vars

\* a deleted response is deleted again by its owner: not found, and the count
\* of its parent is what the first delete left
C4_Witness ==
  \E p \in Procs :
    /\ call[p].pc = "done" /\ call[p].op = "deletePost" /\ call[p].sres = "false"
    /\ call[p].arg \in DOMAIN posts
    /\ ~posts[call[p].arg].active
    /\ posts[call[p].arg].userId = call[p].userId
    /\ posts[call[p].arg].parentId # 0
    /\ posts[posts[call[p].arg].parentId].responseCount = 1

\* C5: responseCount and bookmarkCount of every post are >= 0 in every state,
\* also when calls overlap and a counter is decremented more often than it
\* was incremented.
C5_CountersNonNegative ==
  \A id \in DOMAIN posts : posts[id].responseCount >= 0 /\ posts[id].bookmarkCount >= 0

\* a delete is about to commit a decrement of a responseCount that is 0 already
C5_Witness ==
  \E p \in Procs :
    /\ call[p].op = "deletePost" /\ call[p].pc = "dp_commit"
    /\ call[p].cntRow # 0
    /\ posts[call[p].cntRow].responseCount = 0

\* C6: createResponse on a missing or inactive parent fails, and a createResponse
\* that fails at any statement leaves posts, counters and notifications unchanged.
C6_FailedCreateResponseChangesNothing ==
  [][\A p \in Procs :
       Called(p, "createResponse") =>
         /\ SelectActive(Store, call'[p].arg) = None => call'[p].sres = "Parent post not found"
         /\ call'[p].sres # "ok" => StoreUnchanged]_vars

\* a createResponse has failed after its insert (the id of the row is used up),
\* and another one on an inactive parent
C6_Witness ==
  \E p \in Procs :
    /\ call[p].pc = "done" /\ call[p].op = "createResponse"
    /\ call[p].sres = "Parent post not found"
    /\ call[p].arg \in DOMAIN posts
    /\ ~posts[call[p].arg].active
    /\ nextId > Cardinality(DOMAIN posts) + 1

\* C7: whenever the createResponse mutation returns an error to its caller, no
\* response row was added and no responseCount changed.
C7_ErrorMeansNoEffect ==
  [][\A p \in Procs :
       (Called(p, "createResponse") /\ call'[p].res # "ok") => posts' = posts]_vars

\* C8: a successful createResponse appends exactly one notification for the
\* parent's owner when the responder is another user and none when the responder
\* owns the parent; no other step changes the notifications.
C8_NotificationPerResponse ==
  [][IF \E p \in Procs : Called(p, "createResponse") /\ call'[p].sres = "ok"
     THEN \A p \in Procs :
            (Called(p, "createResponse") /\ call'[p].sres = "ok") =>
              LET parentId == call'[p].arg
                  userId == call'[p].userId
              IN  IF posts[parentId].userId # userId
                  THEN notifications' = Append(notifications,
                         [userId |-> posts[parentId].userId,
                          data |-> [type |-> "RESPONSE", postId |-> parentId,
                                    responseId |-> call'[p].new[1].id,
                                    responderId |-> userId]])
                  ELSE notifications' = notifications
     ELSE notifications' = notifications]_vars

\* a user has responded to the post of another user, who has the notification
C8_Witness ==
  \E p \in Procs :
    /\ call[p].pc = "done" /\ call[p].op = "createResponse" /\ call[p].sres = "ok"
    /\ posts[call[p].arg].userId # call[p].userId
    /\ Len(notifications) = 1
    /\ notifications[1].userId = posts[call[p].arg].userId
    /\ notifications[1].data.responderId = call[p].userId
    /\ posts[call[p].arg].status = "DELETED"

\* C9: deletePost on an active post of another user throws and changes nothing.
C9_DeleteByOtherUserChangesNothing ==
  [][\A p \in Procs :
       (/\ Called(p, "deletePost")
        /\ SelectActive(Store, call'[p].arg) # None
        /\ posts[call'[p].arg].userId # call'[p].userId)
       => (/\ call'[p].sres = "Not authorized to delete this post"
           /\ call'[p].res # "ok"
           /\ StoreUnchanged)]_vars

\* a user was refused the delete of another user's response, which is still
\* active and counted by its parent
C9_Witness ==
  \E p \in Procs :
    /\ call[p].pc = "done" /\ call[p].op = "deletePost"
    /\ call[p].sres = "Not authorized to delete this post"
    /\ posts[call[p].arg].active
    /\ posts[call[p].arg].parentId # 0
    /\ posts[posts[call[p].arg].parentId].responseCount = 1

\* ---- the options of the reads that the properties try
FilterSamples ==
  {NoOptions,
   [NoOptions EXCEPT !.type = "POST", !.userId = 1],
   [NoOptions EXCEPT !.type = "RESPONSE", !.parentId = 1],
   [NoOptions EXCEPT !.city = "singapore", !.tags = {"a"}]}
CursorSamples == {<<"0", ":", "0">>, <<"9", ":", "9">>,
                  <<"T", "0", ":", "0", "0", ":", "0">>, <<"g">>}
ReadOptions ==
  {[f EXCEPT !.sortBy = s, !.viewerUserId = 1] : f \in FilterSamples, s \in SortOrders}
  \cup {[NoOptions EXCEPT !.sortBy = s, !.cursor = c, !.limit = 1] :
          s \in SortOrders, c \in CursorSamples}
  \cup {[NoOptions EXCEPT !.sortBy = s, !.cursor = toISOString(1) \o <<":", "9">>,
                           !.engine = "lenient"] : s \in {"NEWEST", "OLDEST"}}

Returned(result) == {result.posts[i].post.id : i \in 1..Len(result.posts)}

\* C10: a post with active = false is returned neither by getPostById nor by
\* any getPosts call, whatever its status.
C10_InactiveIsInvisible ==
  /\ \A id \in DOMAIN posts :
       ~posts[id].active => \A v \in Users \cup {0} : getPostById(Store, id, v) = None
  /\ \A o \in ReadOptions :
       \A id \in Returned(getPosts(Store, o)) : posts[id].active

\* a deleted post of a user with a profile, with status DELETED, next to an
\* active post that the listing returns
C10_Witness ==
  \E id \in DOMAIN posts :
    /\ ~posts[id].active
    /\ posts[id].status = "DELETED"
    /\ posts[id].userId \in DOMAIN ProfileCity
    /\ posts[id].type = "POST"
    /\ Returned(getPosts(Store, NoOptions)) # {}

\* C11: on a store that does not change, a traversal from no cursor until hasMore
\* is false ends without an error and has returned every listed post exactly
\* once, in the order of the sort (key, then id), for each of the six orders.
C11_TraversalReturnsAllInOrder ==
  \A p \in Procs :
    (call[p].op = "traverse" /\ call[p].pc = "done") =>
      /\ call[p].res = "ok"
      /\ call[p].seen = Ordered(posts, Listed(Store, PageOptions(call[p])), call[p].sortBy)

\* the rows of a listing that come after row last, in the order of the sort
After(db, o, last) ==
  {id \in Listed(db, o) :
     RowAfter(SortByOf(o), SortKey(SortByOf(o), db.posts[id]), id,
              SortKey(SortByOf(o), db.posts[last]), last)}

\* C12: for NEWEST and OLDEST the nextCursor of a page, passed back as cursor, is
\* decoded to the createdAt and the id of the last row of that page, and the
\* next page is the first rows after that row.
C12_TimeCursorRoundTrips ==
  \A p \in Procs :
    (/\ call[p].op = "traverse" /\ call[p].pc = "page"
     /\ call[p].cursor # << >>
     /\ call[p].sortBy \in {"NEWEST", "OLDEST"}) =>
      LET o == PageOptions(call[p])
          last == call[p].seen[Len(call[p].seen)]
          next == getPosts(Store, o)
      IN  /\ DecodedCursor(o) = [has |-> TRUE, key |-> Some(posts[last].createdAt),
                                 id |-> Some(last)]
          /\ ~next.error
          /\ [i \in 1..Len(next.posts) |-> next.posts[i].post.id]
               = Take(Ordered(posts, After(Store, o, last), SortByOf(o)), LimitOf(o))

\* cursors with a half missing or unparsable: no ":", an empty key, an empty
\* id, a non-numeric id, a key that is neither a number nor a date
MalformedCursors == {<<"g">>, <<":", "5">>, <<"5", ":">>, <<"5", ":", "x">>, <<"x", ":", "5">>}

\* C13: with a malformed cursor getPosts raises no error and returns what it
\* returns with no cursor, for every sort order (stated for the stores whose
\* first page is not empty).
C13_MalformedCursorIsFirstPage ==
  \A s \in SortOrders, c \in MalformedCursors, e \in Engines :
    LET o == [NoOptions EXCEPT !.sortBy = s, !.limit = 1, !.engine = e]
    IN  getPosts(Store, o).posts # << >> =>
          getPosts(Store, [o EXCEPT !.cursor = c]) = getPosts(Store, o)

\* ---- the shape of a page
PageCursors == {<< >>, <<"0", ":", "2">>, <<"1", ":", "1">>}
PageSamples(limits) ==
  {[NoOptions EXCEPT !.sortBy = s, !.limit = l, !.cursor = c] :
     s \in SortOrders, l \in limits, c \in PageCursors}

\* the rows that satisfy the filters and the cursor predicate of a call
Satisfying(db, o) ==
  {id \in DOMAIN db.posts :
     /\ db.posts[id].userId \in DOMAIN ProfileCity
     /\ Matches(o, DecodedCursor(o), db.posts[id])}

\* the key and the id of a row as a cursor
Encoded(sortBy, row) ==
  (IF sortBy \in {"NEWEST", "OLDEST"} THEN toISOString(row.createdAt)
   ELSE IF sortBy \in {"MOST_SAVED", "LEAST_SAVED"} THEN numberToString(row.bookmarkCount)
   ELSE numberToString(row.responseCount))
  \o <<":">> \o numberToString(row.id)

PageShape(o) ==
  LET result == getPosts(Store, o)
      n == Len(result.posts)
  IN  ~result.error =>
        /\ n <= LimitOf(o)
        /\ result.hasMore <=> Cardinality(Satisfying(Store, o)) > LimitOf(o)
        /\ (result.nextCursor # << >>) <=> result.hasMore
        /\ result.hasMore /\ n > 0 =>
             result.nextCursor = Encoded(SortByOf(o), result.posts[n].post)

C15_NoRepeatNoSkipWhileCountersChange ==
  \A p \in Procs :
    (call[p].op = "traverse" /\ call[p].sortBy \in CountOrders) =>
      /\ \A i, j \in 1..Len(call[p].seen) : call[p].seen[i] = call[p].seen[j] => i = j
      /\ (call[p].pc = "done" /\ call[p].res = "ok") =>
           call[p].stay \subseteq {call[p].seen[i] : i \in 1..Len(call[p].seen)}

\* ---- projections of DELETED posts
StatusReads ==
  {[NoOptions EXCEPT !.sortBy = s, !.type = t, !.viewerUserId = 1] :
     s \in SortOrders, t \in {"POST", "RESPONSE"}}

\* C16: every projection of a post whose status is DELETED at the read has no
\* waveformUrl and, in the full view, no audioUrl: the full view of getPostById
\* (also returned by createPost and createResponse), and the summaries of the
\* listings, for any viewer and sort order.
C16_DeletedIsRedacted ==
  /\ \A id \in DOMAIN posts, v \in Users :
       LET found == getPostById(Store, id, v)
       IN  (found # None /\ posts[id].status = "DELETED") =>
             /\ mapPostToFull(found[1]).audioUrl = None
             /\ mapPostToFull(found[1]).waveformUrl = Null
             /\ mapPostToSummary(found[1]).waveformUrl = Null
  /\ \A o \in StatusReads :
       LET result == getPosts(Store, o)
       IN  \A i \in 1..Len(result.posts) :
             result.posts[i].post.status = "DELETED" =>
               mapPostToSummary(result.posts[i]).waveformUrl = Null

\* an active response with status DELETED that has a stored waveformUrl and is
\* returned by the listing of the responses of its parent
C16_Witness ==
  \E id \in DOMAIN posts :
    /\ posts[id].status = "DELETED"
    /\ posts[id].waveformUrl = "waveform"
    /\ posts[id].parentId # 0
    /\ id \in Returned(getPosts(Store, [NoOptions EXCEPT !.type = "RESPONSE",
                                                         !.parentId = posts[id].parentId]))

\* the committed tables after the step
StoreAfter == [posts |-> posts', nextId |-> nextId', notifications |-> notifications',
               bookmarks |-> bookmarks', now |-> now', c |-> IdleCall]

\* the fields of the full view that are columns of the posts table
StoredFields == {"id", "userId", "type", "status", "parentId", "duration", "tags",
                 "responseCount", "bookmarkCount", "createdAt", "city"}

\* post id gets the status DELETED in this step
SetDeleted(id) ==
  /\ id \in DOMAIN posts'
  /\ posts[id].status # "DELETED"
  /\ posts'[id].status = "DELETED"

\* the full view of post id after the step redacts audioUrl and waveformUrl and
\* shows the stored value of every other field
ProjectionAfter(id) ==
  \A v \in Users :
    LET found == getPostById(StoreAfter, id, v)
    IN  found # None =>
          /\ mapPostToFull(found[1]).status = "DELETED"
          /\ mapPostToFull(found[1]).audioUrl = None
          /\ mapPostToFull(found[1]).waveformUrl = Null
          /\ \A f \in StoredFields : mapPostToFull(found[1])[f] = posts'[id][f]

\* C17 (amended): setting a post's status to DELETED changes no stored field of
\* it other than status and updatedAt, and no other post; the projection of the
\* post shows the stored value of every field other than audioUrl and
\* waveformUrl, with status DELETED.
C17_StatusDeletedKeepsTheRest ==
  [][\A id \in DOMAIN posts :
       SetDeleted(id) =>
         /\ posts' = [posts EXCEPT ![id].status = "DELETED",
                                   ![id].updatedAt = posts'[id].updatedAt]
         /\ ProjectionAfter(id)]_vars

\* a post with a stored waveformUrl whose status was set to DELETED later than
\* it was created, and which getPostById still returns
C17_Witness ==
  \E id \in DOMAIN posts :
    /\ posts[id].status = "DELETED"
    /\ posts[id].waveformUrl = "waveform"
    /\ posts[id].bookmarkCount = 1
    /\ posts[id].updatedAt > posts[id].createdAt
    /\ getPostById(Store, id, 1) # None

\* C17 as stated: setting the status to DELETED changes no other stored field.
C17_StatusDeletedChangesOnlyStatus ==
  [][\A id \in DOMAIN posts :
       SetDeleted(id) =>
         /\ posts' = [posts EXCEPT ![id].status = "DELETED"]
         /\ ProjectionAfter(id)]_vars

\* ------------------------------------------------------------------ C18
BookmarkRows(id) == {b \in bookmarks : b[2] = id}

\* C18: at every moment the bookmarkCount of every post is the number of
\* bookmark rows of that post, whatever bookmarkPost and removeBookmark calls
\* of the users have run, alone or at once.
C18_BookmarkCountIsRows ==
  \A id \in DOMAIN posts : posts[id].bookmarkCount = Cardinality(BookmarkRows(id))

\* both users have bookmarked post 1, one bookmark has been removed again by a
\* call that finished, and another removal found nothing
C18_Witness ==
  /\ 1 \in DOMAIN posts /\ posts[1].bookmarkCount = 1
  /\ BookmarkRows(1) = {<<2, 1>>}
  /\ call[1].op = "removeBookmark" /\ call[1].pc = "done" /\ call[1].sres = "true"
  /\ call[2].op = "removeBookmark" /\ call[2].pc = "done" /\ call[2].sres = "false"

\* ------------------------------------------------------------------ C19
\* the step in which the call of p finishes
Finishes(p, op) == call[p].op = op /\ call[p].pc # "done" /\ call'[p].pc = "done"

\* C19: a bookmarkPost call for a pair that has a row fails with the conflict
\* error and leaves rows and counts as they were; a call for a new pair of an
\* existing post adds the one row of the pair and raises the bookmarkCount of
\* the post by exactly 1; so of two calls for the same new pair that run at
\* once one succeeds and the other fails with the conflict error.  Until it
\* finishes a call changes nothing that others see.
C19_OneRowPerPair ==
  [][\A p \in Procs :
       /\ Finishes(p, "bookmarkPost") =>
            LET key == <<call[p].userId, call[p].arg>>
            IN  IF key \in bookmarks
                THEN /\ call'[p].sres = "already bookmarked"
                     /\ call'[p].res = "DATABASE_ERROR"
                     /\ posts' = posts /\ bookmarks' = bookmarks
                ELSE IF call[p].arg \in DOMAIN posts
                THEN /\ call'[p].sres = "ok"
                     /\ bookmarks' = bookmarks \cup {key}
                     /\ posts' = [posts EXCEPT ![call[p].arg].bookmarkCount = @ + 1]
                ELSE /\ call'[p].res = "DATABASE_ERROR"
                     /\ posts' = posts /\ bookmarks' = bookmarks
       /\ (call[p].op = "bookmarkPost" /\ call'[p] # call[p] /\ call'[p].pc # "done"
              /\ call'[p].pc # "idle")
            => posts' = posts /\ bookmarks' = bookmarks
  ]_vars

\* two calls for the same new pair at once: the first has inserted the row and
\* raised the count in its transaction, the second is at its insert and waits
C19_Witness ==
  /\ call[1].op = "bookmarkPost" /\ call[1].pc = "ab_commit" /\ call[1].bmAdd = {<<1, 1>>}
  /\ call[2].op = "bookmarkPost" /\ call[2].pc = "ab_insert"
  /\ call[2].userId = 1 /\ call[2].arg = 1
  /\ <<1, 1>> \notin bookmarks /\ posts[1].bookmarkCount = 0

\* ------------------------------------------------------------------ C20
\* C20: a removeBookmark call for a pair without a row reports NOT_FOUND and
\* leaves every row and every count as it was; a call for a pair with a row
\* deletes exactly that row and lowers the bookmarkCount of that post by one,
\* not below zero, and the post then reads isBookmarked = false for the user.
\* Until it finishes the call changes nothing that others see.
C20_RemoveBookmark ==
  [][\A p \in Procs :
       /\ Finishes(p, "removeBookmark") =>
            LET key == <<call[p].userId, call[p].arg>>
                found == getPostById(StoreAfter, call[p].arg, call[p].userId)
            IN  IF key \notin bookmarks
                THEN /\ call'[p].res = "NOT_FOUND"
                     /\ posts' = posts /\ bookmarks' = bookmarks
                ELSE /\ call'[p].res = "ok"
                     /\ bookmarks' = bookmarks \ {key}
                     /\ posts' = [posts EXCEPT ![call[p].arg].bookmarkCount = Max(@ - 1, 0)]
                     /\ found # None /\ ~mapPostToFull(found[1]).isBookmarked
       /\ (call[p].op = "removeBookmark" /\ call'[p] # call[p] /\ call'[p].pc # "done"
              /\ call'[p].pc # "idle")
            => posts' = posts /\ bookmarks' = bookmarks
  ]_vars

\* two removals of the bookmark of user 1 on post 1 have run at once: one has
\* deleted the row and lowered the count to 0, the other found no row
C20_Witness ==
  /\ call[1].op = "removeBookmark" /\ call[1].pc = "done" /\ call[1].res = "ok"
  /\ call[2].op = "removeBookmark" /\ call[2].pc = "done" /\ call[2].res = "NOT_FOUND"
  /\ call[1].userId = 1 /\ call[1].arg = 1 /\ call[2].userId = 1 /\ call[2].arg = 1
  /\ 1 \in DOMAIN posts /\ posts[1].bookmarkCount = 0 /\ bookmarks = {}
  /\ 2 \in DOMAIN posts

\* ------------------------------------------------------------------ C21
\* listings of each order, of posts and of the responses of post 1, read by
\* nobody, by user 1 and by user 2
ViewerSamples ==
  {[NoOptions EXCEPT !.sortBy = s, !.limit = l, !.viewerUserId = v, !.type = t,
                     !.parentId = IF t = "RESPONSE" THEN 1 ELSE 0] :
     s \in SortOrders, l \in {1, 2, -1}, v \in Users \cup {0}, t \in {"POST", "RESPONSE"}}

\* C21: every row of a getPosts page and every getPostById result has
\* isBookmarked = TRUE exactly when the bookmarks hold the row (viewer, post);
\* it is FALSE for every row when no viewer is given; the two reads agree.
C21_IsBookmarkedIsTheRow ==
  /\ \A v \in Users \cup {0}, id \in DOMAIN posts :
       LET found == getPostById(Store, id, v)
       IN  found # None =>
             found[1].isBookmarked = (v # 0 /\ <<v, id>> \in bookmarks)
  /\ \A o \in ViewerSamples :
       LET result == getPosts(Store, o)
       IN  /\ ~result.error
           /\ \A i \in 1..Len(result.posts) :
                LET row == result.posts[i]
                IN  /\ row.isBookmarked
                          = (o.viewerUserId # 0 /\ <<o.viewerUserId, row.post.id>> \in bookmarks)
                    /\ getPostById(Store, row.post.id, o.viewerUserId) = Some(row)

\* a page of two posts read by user 1, who has bookmarked the second and not
\* the first, which user 2 has bookmarked
C21_Witness ==
  LET result == getPosts(Store, [NoOptions EXCEPT !.sortBy = "OLDEST", !.viewerUserId = 1])
  IN  /\ Len(result.posts) = 2
      /\ ~result.posts[1].isBookmarked /\ result.posts[2].isBookmarked
      /\ <<2, result.posts[1].post.id>> \in bookmarks

\* ------------------------------------------------------------------ C22
SavedActive(u) == {id \in DOMAIN posts : <<u, id>> \in bookmarks /\ posts[id].active}

\* C22: getMyBookmarks of user u returns only active posts that u has
\* bookmarked, each with isBookmarked = TRUE, nothing when u has no bookmark,
\* and all of u's bookmarked active posts when they are no more than limit.
C22_SavedListIsTheBookmarks ==
  \A u \in Users, limit \in {1, 2, -1} :
    \A result \in getMyBookmarks(Store, u, limit) :
      /\ \A row \in result : row.id \in SavedActive(u) /\ row.isBookmarked
      /\ (\A b \in bookmarks : b[1] # u) => result = {}
      /\ Cardinality(SavedActive(u)) <= (IF limit = -1 THEN DefaultLimit ELSE limit)
           => {row.id : row \in result} = SavedActive(u)

\* ------------------------------------------------------------------ C23
\* C23: a request for getPosts, getPostById, getResponses, createPost,
\* createResponse, deletePost, bookmarkPost or removeBookmark that carries no
\* authenticated user ends at once with the code UNAUTHORIZED, and posts,
\* counters, bookmarks and notifications are as before.
C23_UnauthenticatedIsRejected ==
  [][\A p \in Procs :
       (/\ call[p].pc = "idle" /\ call'[p].pc # "idle"
        /\ call'[p].op \in PostOps /\ call'[p].userId = 0)
       => /\ call'[p].pc = "done" /\ call'[p].res = "UNAUTHORIZED"
          /\ posts' = posts /\ nextId' = nextId
          /\ bookmarks' = bookmarks /\ notifications' = notifications
  ]_vars

\* with a bookmarked post and its response stored, a deletePost request
\* without a user has been rejected
C23_Witness ==
  /\ call[1].op = "deletePost" /\ call[1].res = "UNAUTHORIZED" /\ call[1].arg = 1
  /\ call[1].userId = 0
  /\ 2 \in DOMAIN posts /\ posts[2].parentId = 1
  /\ posts[1].active /\ posts[1].responseCount = 1 /\ posts[1].bookmarkCount = 1
  /\ <<1, 1>> \in bookmarks /\ notifications # << >>

\* ------------------------------------------------------------------ C24
\* C24: a visible post with no responses and no bookmarks is returned by the
\* getPostById query and by the listing query without an error, with
\* responseCount = 0 and bookmarkCount = 0.
C24_ZeroCountsAreReturned ==
  \A id \in DOMAIN posts :
    (/\ posts[id].active /\ posts[id].userId \in DOMAIN ProfileCity
     /\ posts[id].responseCount = 0 /\ posts[id].bookmarkCount = 0) =>
      LET one == QueryGetPostById(Store, id, 1)
          page == QueryGetPosts(Store, [NoOptions EXCEPT !.viewerUserId = 1,
                                                         !.type = posts[id].type,
                                                         !.parentId = posts[id].parentId])
      IN  /\ ~one.errors /\ one.data # None
          /\ one.data[1].responseCount = 0 /\ one.data[1].bookmarkCount = 0
          /\ ~page.errors
          /\ \E i \in 1..Len(page.data) :
               /\ page.data[i].id = id
               /\ page.data[i].responseCount = 0 /\ page.data[i].bookmarkCount = 0

\* ------------------------------------------------------------------ C25
\* C25: in every state a post has type RESPONSE exactly when it has a
\* parentId, and every parentId is the id of a stored post, whatever deletes,
\* bookmarks and worker updates have followed the creations.
C25_ResponseIffParent ==
  \A id \in DOMAIN posts :
    /\ (posts[id].type = "RESPONSE") <=> (posts[id].parentId # 0)
    /\ posts[id].type \in {"POST", "RESPONSE"}
    /\ posts[id].parentId # 0 => posts[id].parentId \in DOMAIN posts

\* a response whose parent has been deleted and set to DELETED by the worker
C25_Witness ==
  /\ 2 \in DOMAIN posts
  /\ posts[1].type = "POST" /\ posts[1].parentId = 0
  /\ posts[2].type = "RESPONSE" /\ posts[2].parentId = 1
  /\ ~posts[1].active /\ posts[1].status = "DELETED" /\ posts[1].bookmarkCount = 1

\* ------------------------------------------------------------------ C26
\* C26: no step removes a post row or sets active back to TRUE: every stored
\* id stays stored, every new id is greater than every id stored before, and
\* an inactive post is inactive after every step.
C26_RowsStayAndStayInactive ==
  [][/\ \A id \in DOMAIN posts :
          /\ id \in DOMAIN posts'
          /\ ~posts[id].active => ~posts'[id].active
     /\ \A id \in DOMAIN posts' \ DOMAIN posts :
          \A old \in DOMAIN posts : id > old
  ]_vars

\* C26 with the ids as the store gives them: no step removes a post row or
\* sets active back to TRUE, the sequence of ids never goes back, and every
\* new row has an id that was drawn from the sequence and never stored before.
C26_RowsStayInactiveStays ==
  [][/\ \A id \in DOMAIN posts :
          /\ id \in DOMAIN posts'
          /\ ~posts[id].active => ~posts'[id].active
     /\ nextId' >= nextId
     /\ \A id \in DOMAIN posts' \ DOMAIN posts : id < nextId'
  ]_vars

\* post 1 is deleted; a response holds id 2 in a transaction that has not
\* committed while the row of a newer post 3 is stored
C26_Witness ==
  /\ 3 \in DOMAIN posts /\ 2 \notin DOMAIN posts /\ ~posts[1].active
  /\ \E p \in Procs : call[p].new # None /\ call[p].new[1].id = 2

\* ------------------------------------------------------------------ C27
\* C27: every row that createPost or createResponse adds has status
\* AWAITING_PROCESSING, active = TRUE, both counts 0 and no waveformUrl, and
\* getPostById returns it at once, with its audioUrl.
C27_NewPostDefaultsAndVisible ==
  [][\A id \in DOMAIN posts' \ DOMAIN posts :
       LET row == posts'[id]
           found == getPostById(StoreAfter, id, row.userId)
       IN  /\ row.status = "AWAITING_PROCESSING" /\ row.active
           /\ row.responseCount = 0 /\ row.bookmarkCount = 0
           /\ row.waveformUrl = Null
           /\ found # None
           /\ mapPostToFull(found[1]).audioUrl = Some(row.audioUrl)
  ]_vars

\* ------------------------------------------------------------------ C28
\* calls with every combination of the filters, with and without a cursor
FilterCalls ==
  {[NoOptions EXCEPT !.type = t, !.city = c, !.userId = u, !.parentId = par, !.tags = tg,
                     !.sortBy = "LEAST_SAVED", !.cursor = cur] :
     t \in {Null, "POST", "RESPONSE"}, c \in {Null, "tokyo", "singapore"},
     u \in {0, 1, 2}, par \in {0, 1}, tg \in {{}, {"a"}, {"a", "c"}, {"c"}},
     cur \in {<< >>, <<"0", ":", "1">>}}

\* the visible rows that satisfy every supplied filter of the call at once,
\* the tags by sharing a tag with the list, and come after the cursor
Filtered(o) ==
  {id \in DOMAIN posts :
     /\ posts[id].active /\ posts[id].userId \in DOMAIN ProfileCity
     /\ posts[id].type = (IF o.type = Null THEN "POST" ELSE o.type)
     /\ o.city # Null => posts[id].city = o.city
     /\ o.userId # 0 => posts[id].userId = o.userId
     /\ o.parentId # 0 => posts[id].parentId = o.parentId
     /\ o.tags # {} => posts[id].tags \cap o.tags # {}
     /\ o.cursor # << >> =>
          (posts[id].bookmarkCount > 0 \/ (posts[id].bookmarkCount = 0 /\ id > 1))}

\* C28: getPosts returns exactly the rows that satisfy all supplied filters,
\* active = TRUE and the cursor predicate (up to the limit, which the stores
\* here do not reach); a post passes the tags filter exactly when it shares a
\* tag with the list, and an empty list filters nothing.  Stated for the calls
\* that some stored row satisfies.
C28_FiltersAreConjunctive ==
  \A o \in FilterCalls :
    Filtered(o) # {} =>
      /\ ~getPosts(Store, o).error
      /\ Returned(getPosts(Store, o)) = Filtered(o)

\* ------------------------------------------------------------------ C29
\* C29: the city stored on a new response is the city of its parent post,
\* whoever responds and whatever the city of the responder's profile.
C29_ResponseCityIsParentCity ==
  [][\A id \in DOMAIN posts' \ DOMAIN posts :
       posts'[id].type = "RESPONSE" =>
         /\ posts'[id].parentId \in DOMAIN posts
         /\ posts'[id].city = posts[posts'[id].parentId].city
  ]_vars

\* user 1, whose profile says tokyo, has responded to a post of singapore
\* while a post of tokyo is stored as well
C29_Witness ==
  \E r \in DOMAIN posts, other \in DOMAIN posts :
    /\ posts[r].type = "RESPONSE" /\ posts[r].userId = 1 /\ ProfileCity[1] = "tokyo"
    /\ posts[r].city = "singapore" /\ posts[posts[r].parentId].city = "singapore"
    /\ posts[other].type = "POST" /\ posts[other].city = "tokyo"

\* ------------------------------------------------------------------ C30
\* C30: a step that changes the status of a post changes nothing else but the
\* updatedAt of that post, and a step that changes the waveformUrl of a post
\* nothing else but the updatedAt of that post: active, the counts, audioUrl,
\* audioKey, the other posts, the bookmarks and the notifications stay; and
\* no step of a deletePost call changes the status of any post.
C30_WorkerUpdatesAreSingleField ==
  [][/\ \A id \in DOMAIN posts :
          /\ posts'[id].status # posts[id].status =>
               /\ posts' = [posts EXCEPT ![id].status = posts'[id].status,
                                          ![id].updatedAt = posts'[id].updatedAt]
               /\ UNCHANGED <<nextId, bookmarks, notifications>>
          /\ posts'[id].waveformUrl # posts[id].waveformUrl =>
               /\ posts' = [posts EXCEPT ![id].waveformUrl = posts'[id].waveformUrl,
                                          ![id].updatedAt = posts'[id].updatedAt]
               /\ UNCHANGED <<nextId, bookmarks, notifications>>
     /\ \A p \in Procs :
          (call'[p] # call[p] /\ call'[p].op = "deletePost") =>
            \A id \in DOMAIN posts : posts'[id].status = posts[id].status
  ]_vars

\* the worker has processed post 1 and set its waveform after time has
\* passed, the bookmark and the count of post 1 are kept, and its deleted
\* response still has the status it was created with
C30_Witness ==
  /\ 2 \in DOMAIN posts
  /\ posts[1].status = "PROCESSED" /\ posts[1].waveformUrl = "waveform"
  /\ posts[1].updatedAt = 1 /\ posts[1].createdAt = 0
  /\ posts[1].active /\ posts[1].bookmarkCount = 1 /\ <<1, 1>> \in bookmarks
  /\ posts[2].parentId = 1 /\ ~posts[2].active /\ posts[2].status = "AWAITING_PROCESSING"


\* ------------------------------------------------------------------ C31
\* C31: getPostById(id) returns a projection exactly when a post with that id
\* exists and is active, whoever its author and whoever the viewer is, and
\* nothing otherwise; so every post just created is returned.
C31_FoundIffActive ==
  \A id \in 1..(MaxPostsBm + 1), viewerUserId \in {0} \cup Users :
    (getPostById(Store, id, viewerUserId) # None)
      <=> (id \in DOMAIN posts /\ posts[id].active)


\* ------------------------------------------------------------------ C32
\* the getResponses listing of post id
ResponsesOf(id) == [NoOptions EXCEPT !.parentId = id, !.type = "RESPONSE", !.sortBy = "NEWEST"]

\* what a successful deletePost leaves alone besides the rows of the post and
\* of its parent: the bookmarks, the notifications, and the listing of the
\* responses of the post
DeleteFrame(id) ==
  /\ bookmarks' = bookmarks
  /\ notifications' = notifications
  /\ nextId' = nextId
  /\ \A r \in Responses(id) : posts'[r] = posts[r]
  /\ getPosts(StoreAfter, ResponsesOf(id)) = getPosts(Store, ResponsesOf(id))

\* C32 (amended): a successful deletePost(p) sets p.active to false and
\* p.updatedAt to the time of the call and, when p is a response, changes its
\* parent's responseCount and updatedAt; every other field of p (its counts
\* too), every other post (the responses of p too, which stay listed), the
\* bookmarks and the notifications are unchanged.
C32_DeleteChangesPostAndParentOnly ==
  [][\A p \in Procs :
       (Called(p, "deletePost") /\ call'[p].res = "ok") =>
         LET id == call'[p].arg
             parent == posts[id].parentId
             deleted == [posts EXCEPT ![id].active = FALSE, ![id].updatedAt = now]
         IN  /\ posts[id].active
             /\ posts' = IF parent = 0 THEN deleted
                         ELSE [deleted EXCEPT ![parent].responseCount = posts'[parent].responseCount,
                                              ![parent].updatedAt = now]
             /\ DeleteFrame(id)
  ]_vars

\* user 2 has deleted response 2 of post 1 later than it was made: the
\* response keeps its count, its bookmark and its own active response 3, the
\* notifications of both responses are kept, and post 1 has no response left
C32_Witness ==
  /\ call[1].pc = "done" /\ call[1].op = "deletePost" /\ call[1].res = "ok" /\ call[1].arg = 2
  /\ 3 \in DOMAIN posts
  /\ posts[2].parentId = 1 /\ ~posts[2].active /\ posts[2].updatedAt > posts[2].createdAt
  /\ posts[2].responseCount = 1 /\ posts[2].bookmarkCount = 1 /\ <<2, 2>> \in bookmarks
  /\ posts[3].parentId = 2 /\ posts[3].active
  /\ Returned(getPosts(Store, ResponsesOf(2))) = {3}
  /\ Len(notifications) = 2
  /\ posts[1].responseCount = 0 /\ posts[1].updatedAt > posts[1].createdAt

\* C32 as stated: of the parent's row only responseCount changes.
C32_DeleteChangesActiveAndParentCount ==
  [][\A p \in Procs :
       (Called(p, "deletePost") /\ call'[p].res = "ok") =>
         LET id == call'[p].arg
             parent == posts[id].parentId
             deleted == [posts EXCEPT ![id].active = FALSE, ![id].updatedAt = now]
         IN  /\ posts[id].active
             /\ posts' = IF parent = 0 THEN deleted
                         ELSE [deleted EXCEPT ![parent].responseCount = posts'[parent].responseCount]
             /\ DeleteFrame(id)
  ]_vars


\* ------------------------------------------------------------------ C33
\* C33: whenever the row of a response becomes visible, its parent is active at
\* that moment; a createResponse that overlaps a deletePost of its parent
\* either fails with "Parent post not found" or commits under an active parent.
C33_ResponseCommitsUnderActiveParent ==
  [][\A id \in DOMAIN posts' \ DOMAIN posts :
       posts'[id].parentId # 0 =>
         /\ posts'[id].parentId \in DOMAIN posts
         /\ posts[posts'[id].parentId].active
         /\ posts'[posts'[id].parentId].active
  ]_vars


\* ------------------------------------------------------------------ C34
\* the calls of getMyPosts and getUserPosts with the given type (Null: none),
\* and of getPosts itself with that type and each of the other filters
TypedCalls(type) ==
  {getMyPostsOptions(u, type, s, l) : u \in Users, s \in {Null, "OLDEST"}, l \in {0, 1}}
  \cup {getUserPostsOptions(v, u, type, s, l) :
          v \in Users, u \in Users, s \in {Null, "MOST_RESPONSES"}, l \in {0, 1}}
  \cup {[NoOptions EXCEPT !.type = type],
        [NoOptions EXCEPT !.type = type, !.city = "singapore"],
        [NoOptions EXCEPT !.type = type, !.parentId = 1],
        [NoOptions EXCEPT !.type = type, !.cursor = <<"9", ":", "9">>]}

TypesOf(result) == {result.posts[i].post.type : i \in 1..Len(result.posts)}

\* C34: a getPosts call without a type returns only posts of type POST, so
\* getMyPosts and getUserPosts without a type return no response, and no page
\* holds both a POST and a RESPONSE, whatever type is asked for.
C34_DefaultTypeIsPost ==
  /\ \A o \in TypedCalls(Null) : TypesOf(getPosts(Store, o)) \subseteq {"POST"}
  /\ \A type \in {Null, "POST", "RESPONSE"} :
       \A o \in TypedCalls(type) : Cardinality(TypesOf(getPosts(Store, o))) <= 1

\* user 1 has an active post and an active response: getMyPosts without a type
\* returns the post alone, and with type RESPONSE the response alone
C34_Witness ==
  /\ 2 \in DOMAIN posts
  /\ posts[1].userId = 1 /\ posts[1].active /\ posts[1].type = "POST"
  /\ posts[2].userId = 1 /\ posts[2].active /\ posts[2].type = "RESPONSE"
  /\ Returned(getPosts(Store, getMyPostsOptions(1, Null, Null, 0))) = {1}
  /\ Returned(getPosts(Store, getMyPostsOptions(1, "RESPONSE", Null, 0))) = {2}


\* ------------------------------------------------------------------ C35
\* post id shows neither audioUrl nor waveformUrl in any projection read on db
Withheld(db, id) ==
  /\ \A v \in Users :
       LET found == getPostById(db, id, v)
       IN  found # None =>
             /\ mapPostToFull(found[1]).audioUrl = None
             /\ mapPostToFull(found[1]).waveformUrl = Null
  /\ \A o \in StatusReads :
       LET result == getPosts(db, o)
       IN  \A i \in 1..Len(result.posts) :
             result.posts[i].post.id = id => mapPostToSummary(result.posts[i]).waveformUrl = Null

\* C35: once the status of a post is DELETED, no step (the worker's later
\* updatePostStatus and updatePostWaveformUrl calls included) makes its
\* audioUrl or its waveformUrl appear again in a projection.
C35_DeletedStaysWithheld ==
  [][\A id \in DOMAIN posts : posts[id].status = "DELETED" => Withheld(StoreAfter, id)]_vars


\* ------------------------------------------------------------------ C36
\* restoreAuth call r ends in this step
Ends(r) == restore[r].pc # "done" /\ restore'[r].pc = "done"

\* restoreAuth call r is started in this step by the provider's effect
StartedByEffect(r) ==
  restore[r].pc = "idle" /\ restore'[r].pc # "idle" /\ restore'[r].by = "effect"

\* C36: every restoreAuth call ends with the status authenticated or idle, and
\* the status is not restoring once no call is in progress; a call that ends
\* with idle leaves no token in localStorage and none on the GraphQL client;
\* and the effect starts a restore at most once: only while restorationStarted
\* is unset, which it sets for good.
C36_RestoreEndsAndStartsOnce ==
  [][/\ \A r \in Runs :
          Ends(r) =>
            /\ authState'.status \in {"authenticated", "idle"}
            /\ restore'[r].res = authState'.status
            /\ authState'.status = "idle" => (localStorage' = Null /\ clientToken' = Null)
     /\ (\A r \in Runs : restore'[r].pc # "awaiting") => authState'.status # "restoring"
     /\ \A r \in Runs : StartedByEffect(r) => (~restorationStarted /\ restorationStarted')
     /\ restorationStarted => restorationStarted'
  ]_vars

\* the restore of the effect found the token "a", its validation failed, and
\* the status is idle again with the tokens cleared; a later restoreAuth call
\* has ended idle as well, and the effect has not run again
C36_Witness ==
  /\ restorationStarted
  /\ restore[1] = [pc |-> "done", token |-> "a", by |-> "effect", res |-> "idle"]
  /\ restore[2] = [pc |-> "done", token |-> Null, by |-> "call", res |-> "idle"]
  /\ authState.status = "idle"
  /\ localStorage = Null /\ clientToken = Null

\* ------------------------------------------------------------------ C37
\* C37: whenever the status is authenticated, the token of the state is the
\* token in localStorage and the token of the GraphQL client; so after logout
\* the status is not authenticated again while no token is stored, although a
\* restoreAuth call that was awaiting its validation completes afterwards.
C37_AuthenticatedTokenIsStored ==
  authState.status = "authenticated" =>
    /\ authState.token = localStorage
    /\ authState.token = clientToken

====
